---------------------------- MODULE Spec2Model ----------------------------
(***************************************************************************)
(* Asteroid impact simulator: the impact-consequence pipeline              *)
(* (ImpactCalculator.calculateImpact and the physics stages it calls) and  *)
(* the simulator's phase-2 toggle.                                         *)
(*                                                                         *)
(* Numbers.  Every physical quantity of the pipeline is a product of       *)
(* powers, so a positive JavaScript number x is held as the integer        *)
(* 1000*log10(x) (a "millidecade" logarithm): products are sums, powers    *)
(* are multiples, comparisons are comparisons.  The values that are not    *)
(* positive finite numbers are held as marks outside the range of any      *)
(* logarithm: Zero (the number 0), PosInf (Infinity), NaN and Undef (the   *)
(* JavaScript value undefined).  Magnitudes, angles and coordinates are    *)
(* held linearly (thousandths, degrees).                                   *)
(***************************************************************************)
EXTENDS Integers, Sequences, FiniteSets, TLC

Zero   == 0 - 1000000
PosInf == 0 + 1000000
NaN    == 2 * 1000000
Undef  == 3 * 1000000

\* typeof x === 'number' (NaN is a number, undefined is not)
IsNumber(x) == x # Undef
\* a value arithmetic turns into NaN (undefined coerces to NaN)
IsNaN(x) == x >= NaN
IsFinitePos(x) == x > Zero /\ x < PosInf

\* LET name == value IN Body(name), for a value that takes computing: the
\* value is computed once and Body reads it under its name
Let(value, Body(_)) == Body(value)

\* ------------------------------------------------------------------------
\* Antilogarithm and logarithm on integers
\* ------------------------------------------------------------------------
Tenth      == <<10000, 12589, 15849, 19953, 25119, 31623, 39811, 50119, 63096, 79433>>
Hundredth  == <<10000, 10233, 10471, 10715, 10965, 11220, 11482, 11749, 12023, 12303>>
Thousandth == <<10000, 10023, 10046, 10069, 10093, 10116, 10139, 10162, 10186, 10209>>

\* 10000 * 10^(f/1000) for f in 0..999
Mantissa(f) ==
    LET a == f \div 100
        b == (f % 100) \div 10
        c == f % 10
    IN  (((Tenth[a + 1] * Hundredth[b + 1]) \div 10000) * Thousandth[c + 1]) \div 10000

RECURSIVE TenTo(_)
TenTo(k) == IF k <= 0 THEN 1 ELSE 10 * TenTo(k - 1)

\* largest digit d in 0..9 with tab[d+1] <= m
Digit(tab, m) == CHOOSE d \in 0..9 : tab[d + 1] <= m /\ (d = 9 \/ tab[d + 2] > m)

\* 1000*log10(m/10000) for m in 10000..99999
LogMantissa(m) ==
    Let(Digit(Tenth, m), LAMBDA a :
    Let((m * 10000) \div Tenth[a + 1], LAMBDA m2 :
    Let(Digit(Hundredth, m2), LAMBDA b :
    Let((m2 * 10000) \div Hundredth[b + 1], LAMBDA m3 :
        100 * a + 10 * b + Digit(Thousandth, m3)))))

RECURSIVE Digits(_)
Digits(n) == IF n < 10 THEN 1 ELSE 1 + Digits(n \div 10)

\* 1000*log10(n) for an integer n >= 1
Log10(n) ==
    Let(Digits(n) - 1, LAMBDA e :
        1000 * e + LogMantissa(IF e >= 4 THEN n \div TenTo(e - 4)
                                         ELSE n * TenTo(4 - e)))

\* the logarithms of 1..10000, computed once
LogTable == [ n \in 1..10000 |-> Log10(n) ]

Lg(n) == IF n \in DOMAIN LogTable THEN LogTable[n] ELSE Log10(n)

\* 1000*log10(n/d) for integers n, d >= 1
LgQ(n, d) == Lg(n) - Lg(d)

\* 1000000 * 10^(q/1000) for q in -6000..0
Exp10(q) ==
    Let((0 - q + 999) \div 1000, LAMBDA e :
        (Mantissa(q + 1000 * e) * 100) \div TenTo(e))

\* log of 1 - x and of 1 + x, for the logarithm q <= 0 of x
OneMinus(q) == IF q < 0 - 6000 THEN 0 ELSE Lg(1000000 - Exp10(q)) - 6000
OnePlus(q)  == IF q < 0 - 6000 THEN 0 ELSE Lg(1000000 + Exp10(q)) - 6000

\* ------------------------------------------------------------------------
\* JavaScript arithmetic on logarithms
\* ------------------------------------------------------------------------
Mul(a, b) ==
    IF IsNaN(a) \/ IsNaN(b) THEN NaN
    ELSE IF (a = Zero /\ b = PosInf) \/ (a = PosInf /\ b = Zero) THEN NaN
    ELSE IF a = Zero \/ b = Zero THEN Zero
    ELSE IF a = PosInf \/ b = PosInf THEN PosInf
    ELSE a + b

Div(a, b) ==
    IF IsNaN(a) \/ IsNaN(b) THEN NaN
    ELSE IF (a = Zero /\ b = Zero) \/ (a = PosInf /\ b = PosInf) THEN NaN
    ELSE IF a = Zero \/ b = PosInf THEN Zero
    ELSE IF a = PosInf \/ b = Zero THEN PosInf
    ELSE a - b

\* Math.pow(a, p/q) for p/q > 0
Pow(a, p, q) ==
    IF IsNaN(a) THEN NaN
    ELSE IF a = Zero \/ a = PosInf THEN a
    ELSE (a * p) \div q

\* Math.pow(a, -p/q) for p/q > 0
PowNeg(a, p, q) == Div(0, Pow(a, p, q))

Sqrt(a) == Pow(a, 1, 2)

Max(a, b) == IF IsNaN(a) \/ IsNaN(b) THEN NaN ELSE IF a >= b THEN a ELSE b
Min(a, b) == IF IsNaN(a) \/ IsNaN(b) THEN NaN ELSE IF a <= b THEN a ELSE b

\* a < b and a >= b: false as soon as an operand is NaN
Lt(a, b) == ~IsNaN(a) /\ ~IsNaN(b) /\ a < b
Ge(a, b) == ~IsNaN(a) /\ ~IsNaN(b) /\ a >= b

\* x || dflt on a number: 0, NaN and undefined are falsy
OrElse(x, dflt) == IF x = Zero \/ IsNaN(x) THEN dflt ELSE x

\* ------------------------------------------------------------------------
\* utils/constants.js
\* ------------------------------------------------------------------------
PI == LgQ(355, 113)

PHYSICS_CONSTANTS ==
    [ EARTH_RADIUS            |-> Lg(6371000),
      EARTH_GRAVITY           |-> LgQ(981, 100),
      EARTH_CRUST_DENSITY     |-> Lg(2700),
      WATER_DENSITY           |-> Lg(1000),
      ATMOSPHERE_SCALE_HEIGHT |-> Lg(8400),
      AIR_DENSITY_SEA_LEVEL   |-> LgQ(1225, 1000),
      SOUND_SPEED             |-> Lg(343),
      SEISMIC_VELOCITY        |-> Lg(6000) ]

DAMAGE_THRESHOLDS ==
    [ OVERPRESSURE |-> [ LIGHT_DAMAGE    |-> Lg(6895),
                         MODERATE_DAMAGE |-> Lg(34475),
                         HEAVY_DAMAGE    |-> Lg(68950) ],
      THERMAL      |-> [ FIRST_DEGREE_BURN  |-> Lg(25),
                         SECOND_DEGREE_BURN |-> LgQ(375, 10),
                         THIRD_DEGREE_BURN  |-> LgQ(625, 10) ] ]

\* Math.sin(angle * Math.PI / 180) on the angles the model draws
Sin(angle) ==
    IF IsNaN(angle) THEN NaN
    ELSE CASE angle = 0  -> Zero
           [] angle = 30 -> LgQ(1, 2)
           [] angle = 45 -> LgQ(70711, 100000)
           [] angle = 60 -> LgQ(86603, 100000)
           [] angle = 90 -> 0

\* a - b on logarithms, for a > b (the uses in the code are of this shape)
Sub(a, b) ==
    IF IsNaN(a) \/ IsNaN(b) THEN NaN
    ELSE IF b = Zero THEN a
    ELSE a + OneMinus(b - a)

\* 1 - x for 0 <= x < 1
OneLess(x) == IF IsNaN(x) THEN NaN ELSE IF x = Zero THEN 0 ELSE OneMinus(x)

\* ------------------------------------------------------------------------
\* map/seismic-layers.js: ImpactCalculator helpers
\* ------------------------------------------------------------------------
getAsteroidDensity(composition, customDensity) ==
    CASE composition = "rock"   -> Lg(2700)
      [] composition = "iron"   -> Lg(7800)
      [] composition = "ice"    -> Lg(917)
      [] composition = "custom" -> OrElse(customDensity, Lg(2700))
      [] OTHER                  -> Lg(2700)

calculateMass(diameter, density) ==
    Let(Div(diameter, Lg(2)), LAMBDA radius :
    Let(Mul(Mul(LgQ(4, 3), PI), Pow(radius, 3, 1)), LAMBDA volume :
        Mul(volume, density)))

calculateKineticEnergy(mass, velocity) ==
    Let(Mul(velocity, Lg(1000)), LAMBDA velocityMs :
        Mul(Mul(LgQ(1, 2), mass), Pow(velocityMs, 2, 1)))

calculateMomentum(mass, velocity) == Mul(mass, Mul(velocity, Lg(1000)))

\* phase 2 switched off
Phase2Off == FALSE

isPhase2Enabled == TRUE

\* ------------------------------------------------------------------------
\* physics/atmosphere.js: AtmosphereCalculator
\* ------------------------------------------------------------------------
calculateSurvivalDiameter(velocity, density) ==
    Let(Sqrt(Div(density, Lg(3000))), LAMBDA strengthFactor :
    Let(Pow(Div(velocity, Lg(20)), 1, 2), LAMBDA velocityFactor :
        Div(Mul(Lg(50), strengthFactor), velocityFactor)))

getMaterialStrength(density) ==
    IF Lt(density, Lg(1000)) THEN 6000
    ELSE IF Lt(density, Lg(5000)) THEN 8000
    ELSE 9000

\* the altitude in metres, held linearly: scaleHeight * ln(pressure/strength),
\* at least 10000
calculateAirburstAltitude(diameter, velocity, density) ==
    Let(Mul(Mul(LgQ(1, 2), PHYSICS_CONSTANTS.AIR_DENSITY_SEA_LEVEL),
            Pow(Mul(velocity, Lg(1000)), 2, 1)), LAMBDA dynamicPressure :
    Let(getMaterialStrength(density), LAMBDA strength :
    Let(Div(dynamicPressure, strength), LAMBDA ratio :
        IF IsNaN(ratio) THEN NaN
        ELSE Let((84 * 2303 * ratio) \div 10000, LAMBDA altitude :
                 IF altitude >= 10000 THEN altitude ELSE 10000))))

calculateMassLossRatio(diameter, velocity, density) ==
    Let(Div(Lg(6), diameter), LAMBDA surfaceAreaToVolume :
    Let(Pow(Div(velocity, Lg(20)), 2, 1), LAMBDA velocityFactor :
    Let(Div(Lg(3000), density), LAMBDA strengthFactor :
    Let(Mul(Mul(Mul(LgQ(1, 10), surfaceAreaToVolume), velocityFactor), strengthFactor),
        LAMBDA massLoss :
        Min(massLoss, LgQ(9, 10))))))

calculateFinalVelocity(velocity, diameter, density) ==
    Let(calculateMassLossRatio(diameter, velocity, density), LAMBDA massLossRatio :
    Let(OneLess(Mul(massLossRatio, LgQ(3, 10))), LAMBDA velocityRetention :
        Mul(velocity, Max(velocityRetention, LgQ(1, 2)))))

calculateFinalMass(mass, diameter, velocity, density) ==
    Let(calculateMassLossRatio(diameter, velocity, density), LAMBDA massLossRatio :
        Mul(mass, OneLess(massLossRatio)))

calculateAtmosphericEntry(parameters) ==
    LET diameter == parameters.diameter
        velocity == parameters.velocity
        density  == parameters.density
        mass     == parameters.mass
    IN  Let(calculateSurvivalDiameter(velocity, density), LAMBDA survivalDiameter :
        Let(Ge(diameter, survivalDiameter), LAMBDA survivesAtmosphere :
            IF ~survivesAtmosphere
            THEN [ survivesAtmosphere |-> FALSE,
                   airburstAltitude   |-> calculateAirburstAltitude(diameter, velocity,
                                                                    density),
                   airburstEnergy     |-> Mul(Mul(mass, Pow(Mul(velocity, Lg(1000)), 2, 1)),
                                              LgQ(1, 2)),
                   finalVelocity      |-> Zero,
                   finalMass          |-> Zero,
                   finalDiameter      |-> Zero ]
            ELSE Let(calculateFinalMass(mass, diameter, velocity, density),
                     LAMBDA finalMass :
                     [ survivesAtmosphere |-> TRUE,
                       finalVelocity      |-> calculateFinalVelocity(velocity, diameter,
                                                                     density),
                       finalMass          |-> finalMass,
                       finalDiameter      |-> Pow(Div(Mul(Div(finalMass, density), Lg(6)),
                                                      PI), 1, 3),
                       airburstAltitude   |-> Zero,
                       airburstEnergy     |-> Zero ])))

\* ------------------------------------------------------------------------
\* physics/crater.js: CraterCalculator (self holds the instance's fields)
\* ------------------------------------------------------------------------
CraterCalculator ==
    [ targetDensity |-> PHYSICS_CONSTANTS.EARTH_CRUST_DENSITY,
      gravity       |-> PHYSICS_CONSTANTS.EARTH_GRAVITY ]

\* the projectile-size term with the exponent -1 in place of -0.25
CraterDiameterBySize(self, energy, velocity, mass) ==
    Mul(Mul(LgQ(1161, 1000),
            Pow(Div(energy, Mul(self.targetDensity, self.gravity)), 1, 4)),
        PowNeg(Pow(Div(mass, self.targetDensity), 1, 3), 1, 1))

calculateCraterDiameter(self, energy, velocity, mass) ==
    Let(LgQ(1161, 1000), LAMBDA K :
    Let(Pow(Div(mass, self.targetDensity), 1, 3), LAMBDA L :
    Let(Pow(Div(energy, Mul(self.targetDensity, self.gravity)), 1, 4),
        LAMBDA scalingFactor :
    Let(PowNeg(L, 1, 4), LAMBDA sizeFactor :
        Mul(Mul(K, scalingFactor), sizeFactor)))))

calculateCraterDepth(diameter) ==
    IF Lt(diameter, Lg(2000)) THEN Mul(diameter, LgQ(2, 10))
                              ELSE Mul(diameter, LgQ(1, 10))

calculateCraterVolume(diameter, depth) ==
    Let(Div(diameter, Lg(2)), LAMBDA radius :
    Let(depth, LAMBDA height :
        Div(Mul(Mul(PI, Pow(height, 2, 1)), Sub(Mul(Lg(3), radius), height)), Lg(3))))

calculateRimHeight(diameter) ==
    Let(IF Lt(diameter, Lg(2000)) THEN LgQ(7, 100) ELSE LgQ(3, 100), LAMBDA heightRatio :
        Mul(diameter, heightRatio))

calculateEjectaRange(diameter, velocity) ==
    Let(Mul(LgQ(25, 10), diameter), LAMBDA baseRange :
    Let(Min(Div(velocity, Lg(20)), Lg(2)), LAMBDA velocityFactor :
        Mul(baseRange, velocityFactor)))

\* angle >= 60 and angle >= 30 are false on NaN and undefined
determineCraterShape(angle) ==
    IF ~IsNaN(angle) /\ angle >= 60 THEN "circular"
    ELSE IF ~IsNaN(angle) /\ angle >= 30 THEN "elliptical"
    ELSE "elongated"

calculateCrater(self, parameters) ==
    Let(Sin(parameters.angle), LAMBDA efficiency :
    Let(Mul(parameters.energy, efficiency), LAMBDA effectiveEnergy :
    Let(Div(parameters.diameter, Lg(2)), LAMBDA projectileRadius :
    Let(Mul(Mul(Mul(LgQ(4, 3), PI), Pow(projectileRadius, 3, 1)), parameters.density),
        LAMBDA projectileMass :
    Let(calculateCraterDiameter(self, effectiveEnergy, parameters.velocity,
                                projectileMass), LAMBDA craterDiameter :
    Let(calculateCraterDepth(craterDiameter), LAMBDA craterDepth :
        [ diameter    |-> craterDiameter,
          depth       |-> craterDepth,
          volume      |-> calculateCraterVolume(craterDiameter, craterDepth),
          rimHeight   |-> calculateRimHeight(craterDiameter),
          ejectaRange |-> calculateEjectaRange(craterDiameter, parameters.velocity),
          efficiency  |-> efficiency,
          shape       |-> determineCraterShape(parameters.angle) ]))))))

\* ------------------------------------------------------------------------
\* physics/waves.js: BlastWaveCalculator
\* ------------------------------------------------------------------------
calculateEffectiveEnergy(energy, angle) == Mul(energy, Sin(angle))

\* the target pressure multiplied in where the scaling law divides by it
OverpressureRadiusRising(energy, targetPressure) ==
    Max(Pow(Mul(Div(energy, Mul(Lg(4), PI)), targetPressure), 1, 3), Zero)

calculateOverpressureRadius(energy, targetPressure) ==
    Let(Pow(Div(energy, Mul(Mul(Lg(4), PI), targetPressure)), 1, 3), LAMBDA radius :
        Max(radius, Zero))

calculateMultipleRadii(energy) ==
    LET pressures == <<1000, 5000, 10000, 20000, 50000>>
    IN  [ i \in 1..5 |-> [ pressure |-> Lg(pressures[i]),
                           radius   |-> calculateOverpressureRadius(energy, Lg(pressures[i])) ] ]

calculateBlastWave(parameters) ==
    Let(calculateEffectiveEnergy(parameters.energy, parameters.angle),
        LAMBDA effectiveEnergy :
        [ radius1psi  |-> calculateOverpressureRadius(effectiveEnergy,
                              DAMAGE_THRESHOLDS.OVERPRESSURE.LIGHT_DAMAGE),
          radius5psi  |-> calculateOverpressureRadius(effectiveEnergy,
                              DAMAGE_THRESHOLDS.OVERPRESSURE.MODERATE_DAMAGE),
          radius10psi |-> calculateOverpressureRadius(effectiveEnergy,
                              DAMAGE_THRESHOLDS.OVERPRESSURE.HEAVY_DAMAGE),
          overpressureRadii |-> calculateMultipleRadii(effectiveEnergy) ])

\* ------------------------------------------------------------------------
\* physics/thermal.js: ThermalCalculator
\* ------------------------------------------------------------------------
calculateFireball(energy) ==
    [ radius      |-> Mul(Pow(Div(energy, Lg(4184000) + 3000), 4, 10), Lg(180)),
      duration    |-> Mul(Pow(Div(energy, Lg(4184000) + 3000), 1, 4), LgQ(4, 10)),
      temperature |-> Lg(6000),
      totalRadiantEnergy |-> Mul(energy, LgQ(35, 100)) ]

calculateBurnRadius(fireball, threshold) ==
    Let(fireball.radius, LAMBDA fireballRadius :
    Let(Mul(Mul(Lg(4), PI), Pow(fireballRadius, 2, 1)), LAMBDA fireballSurfaceArea :
    Let(Div(fireball.totalRadiantEnergy, fireballSurfaceArea), LAMBDA fireballFluence :
    Let(Mul(threshold, Lg(10000)), LAMBDA thresholdJm2 :
    Let(Mul(fireballRadius, Sqrt(Div(fireballFluence, thresholdJm2))), LAMBDA burnRadius :
        Max(burnRadius, fireballRadius))))))

calculateThermalRadiation(parameters) ==
    Let(calculateFireball(parameters.energy), LAMBDA fireball :
        [ radius1deg |-> calculateBurnRadius(fireball,
                             DAMAGE_THRESHOLDS.THERMAL.FIRST_DEGREE_BURN),
          radius2deg |-> calculateBurnRadius(fireball,
                             DAMAGE_THRESHOLDS.THERMAL.SECOND_DEGREE_BURN),
          radius3deg |-> calculateBurnRadius(fireball,
                             DAMAGE_THRESHOLDS.THERMAL.THIRD_DEGREE_BURN),
          duration   |-> fireball.duration,
          fireball   |-> fireball ])

\* ------------------------------------------------------------------------
\* Sequences
\* ------------------------------------------------------------------------
\* -Infinity
NegInf == 0 - 2000000

\* Math.max(...s): -Infinity on no argument, NaN as soon as one is NaN
MaxOf(s) ==
    IF Len(s) = 0 THEN NegInf
    ELSE IF \E i \in 1..Len(s) : IsNaN(s[i]) THEN NaN
    ELSE s[CHOOSE i \in 1..Len(s) : \A j \in 1..Len(s) : s[i] >= s[j]]

\* ------------------------------------------------------------------------
\* physics/seismic.js: SeismicCalculator
\* magnitudes are held linearly, in thousandths
\* ------------------------------------------------------------------------
SeismicCalculator ==
    [ attenuationModel |-> "Boore-Atkinson",
      crustalVelocity  |-> PHYSICS_CONSTANTS.SEISMIC_VELOCITY ]

\* the validation with the longitude test forgotten
InvalidLatitude(location) == ~IsNumber(location.latitude)

\* typeof location.latitude !== 'number' || typeof location.longitude !== 'number'
InvalidLocation(location) ==
    ~IsNumber(location.latitude) \/ ~IsNumber(location.longitude)

calculateMagnitude(energy) ==
    Let(Mul(energy, LgQ(1, 100)), LAMBDA seismicEnergy :
    \* Math.log10: the logarithm itself, -Infinity on 0
    Let(((seismicEnergy - 9100) * 2) \div 3, LAMBDA magnitude :
        IF IsNaN(seismicEnergy) THEN NaN
        ELSE IF seismicEnergy = Zero THEN 0
        ELSE IF seismicEnergy = PosInf THEN 10000
        ELSE IF magnitude < 0 THEN 0
        ELSE IF magnitude > 10000 THEN 10000
        ELSE magnitude))

getSiteAmplification(location) == 0

\* the intensity added where the attenuation relation subtracts it
IntensityRadiusAdded(magnitude, intensity, location) ==
    Max((4000 + 3 * magnitude + 2000 * intensity) \div 7 + 3000, Zero)

calculateIntensityRadius(magnitude, intensity, location) ==
    LET A == 2000
        B == 3          \* 1.5, as B/2
        C == 7          \* 3.5, as C/2
    IN  Let(getSiteAmplification(location), LAMBDA siteAmp :
        Let(((2 * A + B * magnitude + 2 * siteAmp - 2000 * intensity)) \div C,
            LAMBDA logR :
        Let(logR, LAMBDA radiusKm :
            Max(radiusKm + 3000, Zero))))

intensityToPGA(intensity) == (1000 * intensity) \div 3 - 1500

RECURSIVE IntensityLevels(_, _, _)
\* for (let i = baseIntensity; i >= 3; i -= 2)
IntensityLevels(i, baseIntensity, craterDiameter) ==
    IF IsNaN(i) \/ i < 3 THEN << >>
    ELSE LET radiusMultiplier == ((baseIntensity - i) * Lg(2)) \div 2
         IN  << [ intensity   |-> i,
                  damageLevel |-> LgQ(i, 12),
                  baseRadius  |-> Mul(craterDiameter, radiusMultiplier) ] >>
             \o IntensityLevels(i - 2, baseIntensity, craterDiameter)

\* the callback with the 500 m floor alone, whatever the crater diameter
PushZoneAboveFloor(level, index, magnitude, location) ==
    Let(calculateIntensityRadius(magnitude, level.intensity, location), LAMBDA radius :
        IF ~IsNaN(radius) /\ radius > Lg(500)
        THEN << [ intensity        |-> level.intensity,
                  radius           |-> radius,
                  damageLevel      |-> level.damageLevel,
                  peakAcceleration |-> intensityToPGA(level.intensity),
                  center           |-> [ latitude  |-> location.latitude,
                                         longitude |-> location.longitude ],
                  opacity          |-> 7 - (index - 1) ] >>
        ELSE << >>)

\* the callback of intensityLevels.forEach((level, index) => ...): the zone it
\* pushes, if it pushes one (index counts from 1 here)
PushZone(level, index, magnitude, location) ==
    Let(calculateIntensityRadius(magnitude, level.intensity, location), LAMBDA radius :
    Let(Max(level.baseRadius, Lg(500)), LAMBDA minRadius :
        IF ~IsNaN(radius) /\ ~IsNaN(minRadius) /\ radius > minRadius
        THEN << [ intensity        |-> level.intensity,
                  radius           |-> radius,
                  damageLevel      |-> level.damageLevel,
                  peakAcceleration |-> intensityToPGA(level.intensity),
                  center           |-> [ latitude  |-> location.latitude,
                                         longitude |-> location.longitude ],
                  \* 0.7 - index * 0.1, in tenths
                  opacity          |-> 7 - (index - 1) ] >>
        ELSE << >>))

RECURSIVE PushZones(_, _, _, _)
\* intensityLevels.forEach(...): the zones pushed from index on
PushZones(levels, index, magnitude, location) ==
    IF index > Len(levels) THEN << >>
    ELSE PushZone(levels[index], index, magnitude, location)
         \o PushZones(levels, index + 1, magnitude, location)

\* the zones left in the order the callback pushed them
ZonesAsPushed(s) == s

RECURSIVE InsertZone(_, _)
\* x put into the sorted zones s before the first zone of smaller radius
InsertZone(s, x) ==
    IF s = << >> THEN <<x>>
    ELSE IF x.radius > Head(s).radius THEN <<x>> \o s
    ELSE <<Head(s)>> \o InsertZone(Tail(s), x)

RECURSIVE SortZones(_)
\* zones.sort((a, b) => b.radius - a.radius): stable, largest radius first
SortZones(s) ==
    IF s = << >> THEN << >>
    ELSE InsertZone(SortZones(SubSeq(s, 1, Len(s) - 1)), s[Len(s)])

calculateIntensityZones(magnitude, location, craterDiameter) ==
    LET floor == (3 * magnitude + 4000) \div 2000
        \* Math.min(12, Math.max(3, NaN)) is NaN
        baseIntensity == IF IsNaN(magnitude) THEN NaN
                         ELSE IF floor < 3 THEN 3 ELSE IF floor > 12 THEN 12 ELSE floor
    IN  Let(IntensityLevels(baseIntensity, baseIntensity, craterDiameter),
            LAMBDA intensityLevels :
        Let(PushZones(intensityLevels, 1, magnitude, location), LAMBDA zones :
            SortZones(zones)))

calculateGroundMotionParameters(self, magnitude, zones) ==
    [ peakGroundAcceleration |->
          IF Len(zones) > 0 THEN MaxOf([i \in 1..Len(zones) |-> zones[i].peakAcceleration])
                            ELSE Zero,
      maxIntensity |->
          IF Len(zones) > 0 THEN MaxOf([i \in 1..Len(zones) |-> zones[i].intensity])
                            ELSE 0,
      attenuationModel  |-> self.attenuationModel,
      crustalProperties |-> [ velocity |-> self.crustalVelocity,
                              density  |-> PHYSICS_CONSTANTS.EARTH_CRUST_DENSITY,
                              quality  |-> 600 ] ]

\* probabilities are held linearly, in 1/100000
calculateFragilityCurve(intensity, vulnerability) ==
    LET adjustedIntensity == intensity * vulnerability      \* thousandths
        Pos(x) == IF x > 0 THEN x ELSE 0
        Cap(x, c) == IF x < c THEN x ELSE c
    IN  [ light     |-> Cap((adjustedIntensity * 80) \div 12, 80000),
          moderate  |-> Cap((Pos(adjustedIntensity - 4000) * 60) \div 8, 60000),
          extensive |-> Cap((Pos(adjustedIntensity - 6000) * 40) \div 6, 40000),
          complete  |-> Cap((Pos(adjustedIntensity - 8000) * 20) \div 4, 20000) ]

assessBuildingDamage(zones) ==
    LET damageCategories == [ residential |-> 1000, commercial |-> 800,
                              industrial  |-> 600,  critical   |-> 400 ]
        Building(zone, type) ==
            Let(calculateFragilityCurve(zone.intensity, damageCategories[type]),
                LAMBDA fragility :
                [ damageStates |-> fragility,
                  expectedLoss |-> (fragility.complete * 6 + fragility.extensive * 3
                                    + fragility.moderate * 1) \div 10 ])
    IN  [ zones |-> [ i \in 1..Len(zones) |->
                        [ intensity |-> zones[i].intensity,
                          radius    |-> zones[i].radius,
                          buildings |-> [ type \in DOMAIN damageCategories |->
                                            Building(zones[i], type) ] ] ],
          totalDamage |-> [ light |-> 0, moderate |-> 0, extensive |-> 0, complete |-> 0 ] ]

seismicArrivalTimes(epicenter, zones) ==
    Let([ pWave |-> Lg(6000), sWave |-> Lg(3500), surface |-> Lg(2800) ],
        LAMBDA waveTypes :
        [ epicenter |-> epicenter,
          arrivals  |-> [ i \in 1..Len(zones) |->
                            [ distance     |-> zones[i].radius,
                              intensity    |-> zones[i].intensity,
                              waveArrivals |-> [ type \in DOMAIN waveTypes |->
                                                   Div(zones[i].radius,
                                                       waveTypes[type]) ] ] ] ])

calculateShakingDuration(magnitude) ==
    LET tectonicDuration == magnitude \div 2 - 1500
    IN  Max(Mul(tectonicDuration, LgQ(3, 10)), Lg(5))

calculateDominantFrequency(magnitude, craterDiameter) ==
    Let(Div(0, Sqrt(Div(craterDiameter, Lg(1000)))), LAMBDA baseFreq :
    Let((5000 - magnitude) \div 3, LAMBDA magnitudeEffect :
        Max(Min(Mul(baseFreq, magnitudeEffect), Lg(50)), LgQ(1, 10))))

\* the floor set at magnitude 4
BelowFour(magnitude) == ~IsNaN(magnitude) /\ magnitude < 4000

\* seismic.js line 38: if (magnitude < 3.0)
BelowSignificance(magnitude) == ~IsNaN(magnitude) /\ magnitude < 3000

\* The result, and the sub-computations made for it, in the order of the calls
calculateSeismicEffects(self, parameters) ==
    LET location == parameters.location
    IN  Let(calculateMagnitude(parameters.energy), LAMBDA magnitude :
        Let(calculateIntensityZones(magnitude, location, parameters.craterDiameter),
            LAMBDA intensityZones :
            IF InvalidLocation(location)
            THEN [ computed |-> << >>,
                   value |-> [ magnitude |-> 0, significant |-> FALSE,
                               effectRadius |-> Zero, zones |-> << >>,
                               peakAcceleration |-> Zero ] ]
            ELSE IF BelowSignificance(magnitude)
            THEN [ computed |-> <<"calculateMagnitude">>,
                   value |-> [ magnitude |-> magnitude, significant |-> FALSE,
                               effectRadius |-> Zero, zones |-> << >>,
                               peakAcceleration |-> Zero ] ]
            ELSE [ computed |-> <<"calculateMagnitude", "calculateIntensityZones",
                                  "calculateGroundMotionParameters",
                                  "assessBuildingDamage", "calculateArrivalTimes">>,
                   value |-> [ magnitude    |-> magnitude,
                               significant  |-> TRUE,
                               effectRadius |-> MaxOf([i \in 1..Len(intensityZones) |->
                                                         intensityZones[i].radius]),
                               zones        |-> intensityZones,
                               groundMotion |->
                                   calculateGroundMotionParameters(self, magnitude,
                                                                   intensityZones),
                               damageAssessment |-> assessBuildingDamage(intensityZones),
                               arrivalTimes |-> seismicArrivalTimes(location,
                                                                    intensityZones),
                               duration     |-> calculateShakingDuration(magnitude),
                               frequency    |-> calculateDominantFrequency(magnitude,
                                                    parameters.craterDiameter) ] ]))

\* ------------------------------------------------------------------------
\* physics/tsunami.js: TsunamiCalculator
\* coordinates are held linearly, in whole degrees; times in seconds
\* ------------------------------------------------------------------------
TsunamiCalculator ==
    [ waterDensity |-> PHYSICS_CONSTANTS.WATER_DENSITY,
      gravity      |-> PHYSICS_CONSTANTS.EARTH_GRAVITY,
      earthRadius  |-> PHYSICS_CONSTANTS.EARTH_RADIUS ]

\* obj.name: undefined when the object has no such property
Get(obj, name) == IF name \in DOMAIN obj THEN obj[name] ELSE Undef

Abs(x) == IF IsNaN(x) THEN NaN ELSE IF x < 0 THEN 0 - x ELSE x
Le(a, b) == ~IsNaN(a) /\ ~IsNaN(b) /\ a <= b
Gt(a, b) == ~IsNaN(a) /\ ~IsNaN(b) /\ a > b

isOceanCoordinate(lat, lng) ==
    \/ Ge(lng, 0 - 80) /\ Le(lng, 20) /\ Lt(Abs(lat), 70)
    \/ (Ge(lng, 0 - 180) /\ Le(lng, 0 - 80)) \/ (Ge(lng, 120) /\ Le(lng, 180))
    \/ Ge(lng, 20) /\ Le(lng, 120) /\ Ge(lat, 0 - 60) /\ Le(lat, 30)

estimateWaterDepth(lat, lng) ==
    Let(Abs(lat), LAMBDA absLat :
        IF Gt(absLat, 60) THEN Lg(2000)
        ELSE IF Lt(absLat, 30) THEN Lg(4000)
        ELSE Lg(3000))

identifyOceanBasin(lat, lng) ==
    IF Ge(lng, 0 - 80) /\ Le(lng, 20) THEN "Atlantic"
    ELSE IF (Ge(lng, 0 - 180) /\ Le(lng, 0 - 80)) \/ (Ge(lng, 120) /\ Le(lng, 180))
    THEN "Pacific"
    ELSE IF Ge(lng, 20) /\ Le(lng, 120) THEN "Indian"
    ELSE "Unknown"

RECURSIVE NearestOf(_, _)
\* Object.entries(distances).reduce((min, [name, dist]) => dist < min.dist ? ... : min)
NearestOf(entries, min) ==
    IF entries = << >> THEN min
    ELSE NearestOf(Tail(entries),
                   IF Lt(Head(entries).dist, min.dist) THEN Head(entries) ELSE min)

findNearestCoastline(lat, lng) ==
    LET Plus(a, b) == IF IsNaN(a) \/ IsNaN(b) THEN NaN ELSE a + b
    IN  Let(<< [ name |-> "North America West", dist |-> Abs(Plus(lng, 120)) ],
               [ name |-> "North America East", dist |-> Abs(Plus(lng, 75)) ],
               [ name |-> "Europe",             dist |-> Abs(Plus(lng, 0)) ],
               [ name |-> "Asia",               dist |-> Abs(Plus(lng, 0 - 140)) ],
               [ name |-> "Australia",
                 dist |-> Plus(Abs(Plus(lng, 0 - 140)), Abs(Plus(lat, 25))) ] >>,
            LAMBDA distances :
            NearestOf(distances, [ name |-> "", dist |-> PosInf ]).name)

determineOceanImpact(location) ==
    LET latitude  == location.latitude
        longitude == location.longitude
    IN  IF ~isOceanCoordinate(latitude, longitude)
        THEN [ inOcean |-> FALSE, waterDepth |-> Zero,
               oceanBasin |-> "null", nearestCoast |-> "null" ]
        ELSE [ inOcean      |-> TRUE,
               waterDepth   |-> estimateWaterDepth(latitude, longitude),
               oceanBasin   |-> identifyOceanBasin(latitude, longitude),
               nearestCoast |-> findNearestCoastline(latitude, longitude),
               coordinates  |-> location ]

\* 1 + x for 0 <= x <= 1
OneMore(x) == IF IsNaN(x) THEN NaN ELSE IF x = Zero THEN 0 ELSE OnePlus(x)

calculateEnergyTransferEfficiency(waterDepth, craterDiameter) ==
    Let(Min(Div(waterDepth, Lg(1000)), 0), LAMBDA depthFactor :
    Let(Min(Div(craterDiameter, Lg(1000)), 0), LAMBDA sizeFactor :
        Mul(Mul(LgQ(1, 1000), OneMore(depthFactor)), OneMore(sizeFactor))))

calculateWaterDisplacement(craterDiameter, waterDepth) ==
    Let(Div(craterDiameter, Lg(2)), LAMBDA radius :
    Let(Min(Mul(radius, LgQ(2, 10)), waterDepth), LAMBDA displacementDepth :
        Mul(Mul(Mul(LgQ(2, 3), PI), Pow(radius, 2, 1)), displacementDepth)))

calculateInitialWaveHeight(self, energy, displacementVolume, waterDepth) ==
    Let(Mul(PI, Pow(Sqrt(Div(displacementVolume, PI)), 2, 1)), LAMBDA waveArea :
    Let(Div(Mul(Lg(2), energy), Mul(Mul(self.waterDensity, self.gravity), waveArea)),
        LAMBDA heightSquared :
        Sqrt(Max(heightSquared, Zero))))

calculateWavePeriod(self, wavelength, waterDepth) ==
    IF Lt(waterDepth, Div(wavelength, Lg(20)))
    THEN Div(wavelength, Sqrt(Mul(self.gravity, waterDepth)))
    ELSE Sqrt(Div(wavelength, Mul(Mul(Lg(2), PI), self.gravity)))

calculateWaveSpeed(self, wavelength, waterDepth) ==
    IF Lt(waterDepth, Div(wavelength, Lg(20)))
    THEN Sqrt(Mul(self.gravity, waterDepth))
    ELSE Sqrt(Div(Mul(self.gravity, wavelength), Mul(Lg(2), PI)))

calculateInitialWave(self, energy, waterDepth, craterDiameter) ==
    Let(calculateEnergyTransferEfficiency(waterDepth, craterDiameter),
        LAMBDA transferEfficiency :
    Let(Mul(energy, transferEfficiency), LAMBDA tsunamiEnergy :
    Let(calculateWaterDisplacement(craterDiameter, waterDepth),
        LAMBDA displacementVolume :
    Let(calculateInitialWaveHeight(self, tsunamiEnergy, displacementVolume, waterDepth),
        LAMBDA initialHeight :
    Let(Max(Mul(craterDiameter, Lg(50)), Mul(waterDepth, Lg(20))), LAMBDA wavelength :
        [ height             |-> initialHeight,
          wavelength         |-> wavelength,
          period             |-> calculateWavePeriod(self, wavelength, waterDepth),
          speed              |-> calculateWaveSpeed(self, wavelength, waterDepth),
          energy             |-> tsunamiEnergy,
          displacementVolume |-> displacementVolume,
          transferEfficiency |-> transferEfficiency,
          waveType |-> IF Gt(waterDepth, Div(wavelength, Lg(20))) THEN "deep-water"
                                                                  ELSE "shallow-water" ])))))

\* Math.exp(-x) for the logarithm lx of x >= 0: 1000*log10(e^-x) = -434.29 * x
ExpNeg(lx) ==
    IF IsNaN(lx) THEN NaN
    ELSE IF lx = Zero \/ lx < 0 - 6000 THEN 0
    ELSE IF lx = PosInf \/ lx > 3000 THEN Zero
    ELSE IF lx <= 0 THEN 0 - ((434 * Exp10(lx)) \div 1000000)
    ELSE 0 - ((434 * Exp10(lx - 3000)) \div 1000)

calculateWaveHeightDecay(initialHeight, distance, wavelength) ==
    Let(Div(0, Sqrt(Max(Div(distance, Lg(1000)), 0))), LAMBDA geometricDecay :
    Let(ExpNeg(Div(distance, Mul(wavelength, Lg(1000)))), LAMBDA dissipationFactor :
        Mul(Mul(initialHeight, geometricDecay), dissipationFactor)))

calculateWaveSpeedAtDistance(initialWave, distance) == initialWave.speed

calculateEnergyAtDistance(initialEnergy, distance) ==
    Div(initialEnergy, Max(Div(distance, Lg(1000)), 0))

timeSteps == 24
timeInterval == 3600
maxPropagationDistance == 20000

\* the body of the loop at one step: the front it pushes, << >> when it breaks
WaveFront(step, initialWave) ==
    Let(step * timeInterval, LAMBDA currentTime :
    Let(Mul(initialWave.speed, IF currentTime = 0 THEN Zero ELSE Lg(currentTime)),
        LAMBDA waveRadius :
    Let(calculateWaveHeightDecay(initialWave.height, waveRadius, initialWave.wavelength),
        LAMBDA heightAtDistance :
        IF Gt(waveRadius, Lg(maxPropagationDistance * 1000)) THEN << >>
        ELSE IF Lt(heightAtDistance, LgQ(1, 100)) THEN << >>
        ELSE << [ time   |-> currentTime,
                  radius |-> waveRadius,
                  height |-> heightAtDistance,
                  speed  |-> calculateWaveSpeedAtDistance(initialWave, waveRadius),
                  energy |-> calculateEnergyAtDistance(initialWave.energy,
                                                       waveRadius) ] >>)))

\* for (let step = 0; step < timeSteps; step++): the fronts pushed up to the
\* first step that breaks
WaveFronts(initialWave) ==
    LET pushed == [ i \in 1..timeSteps |-> WaveFront(i - 1, initialWave) ] \o << >>
        broke  == { i \in 1..timeSteps : pushed[i] = << >> }
        last   == IF broke = {} THEN timeSteps
                  ELSE (CHOOSE i \in broke : \A j \in broke : i <= j) - 1
    IN  [ i \in 1..last |-> pushed[i][1] ] \o << >>

modelWavePropagation(initialWave, epicenter) ==
    [ epicenter   |-> epicenter,
      initialWave |-> initialWave,
      waveFronts  |-> WaveFronts(initialWave) ]

\* 10000 * cos of 0..90 degrees
CosTable ==
    << 10000, 9998, 9994, 9986, 9976, 9962, 9945, 9925, 9903, 9877, 9848, 9816, 9781,
       9744, 9703, 9659, 9613, 9563, 9511, 9455, 9397, 9336, 9272, 9205, 9135, 9063,
       8988, 8910, 8829, 8746, 8660, 8572, 8480, 8387, 8290, 8192, 8090, 7986, 7880,
       7771, 7660, 7547, 7431, 7314, 7193, 7071, 6947, 6820, 6691, 6561, 6428, 6293,
       6157, 6018, 5878, 5736, 5592, 5446, 5299, 5150, 5000, 4848, 4695, 4540, 4384,
       4226, 4067, 3907, 3746, 3584, 3420, 3256, 3090, 2924, 2756, 2588, 2419, 2250,
       2079, 1908, 1736, 1564, 1392, 1219, 1045, 872, 698, 523, 349, 175, 0 >>

\* 10000 * cos(d degrees) for an integer d
Cos(d) ==
    LET m == (IF d < 0 THEN 0 - d ELSE d) % 360
        r == IF m > 180 THEN 360 - m ELSE m
    IN  IF r <= 90 THEN CosTable[r + 1] ELSE 0 - CosTable[180 - r + 1]

\* The haversine formula, with sin^2(x/2) = (1 - cos x)/2 and the central
\* angle c = 2*atan2(sqrt(a), sqrt(1-a)) found as the whole number of degrees
\* whose cosine is 1 - 2a; NaN as soon as a coordinate read is not a number
calculateDistance(self, point1, point2) ==
    LET hav(x) == 10000 - Cos(x)
    IN  Let(Get(point1, "latitude"), LAMBDA lat1 :
        Let(Get(point2, "latitude"), LAMBDA lat2 :
        Let(Get(point1, "longitude"), LAMBDA lng1 :
        Let(Get(point2, "longitude"), LAMBDA lng2 :
        Let(hav(lat2 - lat1)
            + (((Cos(lat1) * Cos(lat2)) \div 10000) * hav(lng2 - lng1)) \div 10000,
            LAMBDA a :
        Let(CHOOSE t \in 0..180 :
                Cos(t) >= 10000 - a /\ (t = 180 \/ Cos(t + 1) < 10000 - a), LAMBDA c :
            IF IsNaN(lat1) \/ IsNaN(lat2) \/ IsNaN(lng1) \/ IsNaN(lng2) THEN NaN
            ELSE Mul(self.earthRadius,
                     IF c = 0 THEN Zero ELSE Mul(Lg(c), Div(PI, Lg(180))))))))))

getMajorCoastlines(epicenter) ==
    << [ name |-> "California Coast", coordinates |-> [ lat |-> 36, lng |-> 0 - 122 ],
         population |-> 25000000, topography |-> "steep" ],
       [ name |-> "Japan Coast", coordinates |-> [ lat |-> 36, lng |-> 140 ],
         population |-> 50000000, topography |-> "moderate" ],
       [ name |-> "Chile Coast", coordinates |-> [ lat |-> 0 - 30, lng |-> 0 - 71 ],
         population |-> 5000000, topography |-> "steep" ],
       [ name |-> "Indonesia Coast", coordinates |-> [ lat |-> 0 - 6, lng |-> 106 ],
         population |-> 30000000, topography |-> "flat" ],
       [ name |-> "Hawaii Islands", coordinates |-> [ lat |-> 21, lng |-> 0 - 158 ],
         population |-> 1500000, topography |-> "steep" ] >>

\* Math.abs(front.radius - targetDistance) < front.radius * 0.1, which on
\* positive numbers is 0.9 * radius < targetDistance < 1.1 * radius
WithinTolerance(front, targetDistance) ==
    /\ ~IsNaN(front.radius) /\ ~IsNaN(targetDistance)
    /\ front.radius # Zero
    /\ Lt(Mul(front.radius, LgQ(9, 10)), targetDistance)
    /\ Lt(targetDistance, Mul(front.radius, LgQ(11, 10)))

\* waveFronts.find(...): the index of the first front within tolerance, 0 if none
findWaveAtDistance(waveFronts, targetDistance) ==
    Let({ i \in 1..Len(waveFronts) : WithinTolerance(waveFronts[i], targetDistance) },
        LAMBDA hits :
        IF hits = {} THEN 0 ELSE CHOOSE i \in hits : \A j \in hits : i <= j)

calculateWaveRunUp(self, wave, coastline) ==
    Let(CASE coastline.topography = "steep"    -> LgQ(15, 10)
          [] coastline.topography = "moderate" -> Lg(2)
          [] coastline.topography = "flat"     -> Lg(3)
          [] OTHER                             -> Lg(2), LAMBDA amplification :
        [ maxHeight |-> Mul(wave.height, amplification),
          velocity  |-> Sqrt(Mul(Mul(Mul(Lg(2), self.gravity), wave.height),
                                 amplification)) ])

calculateInundationDistance(runUp, topography) ==
    Let(CASE topography = "steep"    -> Lg(20)
          [] topography = "moderate" -> Lg(100)
          [] topography = "flat"     -> Lg(1000)
          [] OTHER                   -> Lg(100), LAMBDA slopeFactor :
        [ maxDistance |-> Mul(runUp.maxHeight, slopeFactor) ])

assessHazardLevel(waveHeight, runUpHeight) ==
    IF Gt(runUpHeight, Lg(10)) THEN "extreme"
    ELSE IF Gt(runUpHeight, Lg(5)) THEN "high"
    ELSE IF Gt(runUpHeight, Lg(2)) THEN "moderate"
    ELSE IF Gt(runUpHeight, LgQ(5, 10)) THEN "low"
    ELSE "minimal"

\* the body of the loop for one coastline: the effect it pushes, if any
PushEffect(self, coastline, propagationData, epicenter) ==
    Let(calculateDistance(self, epicenter, coastline.coordinates), LAMBDA distance :
    Let(findWaveAtDistance(propagationData.waveFronts, distance), LAMBDA found :
        IF found = 0 THEN << >>
        ELSE
    Let(propagationData.waveFronts[found], LAMBDA arrivalWave :
        IF Lt(arrivalWave.height, LgQ(1, 10)) THEN << >>
        ELSE
    Let(calculateWaveRunUp(self, arrivalWave, coastline), LAMBDA runUp :
    Let(calculateInundationDistance(runUp, coastline.topography), LAMBDA inundation :
        << [ location    |-> coastline.name,
             coordinates |->
                 [ latitude  |-> Get(coastline.coordinates, "latitude"),
                   longitude |-> Get(coastline.coordinates, "longitude") ],
             distance    |-> distance,
             arrivalTime |-> arrivalWave.time,
             waveHeight  |-> arrivalWave.height,
             runUpHeight |-> runUp.maxHeight,
             inundationDistance |-> inundation.maxDistance,
             velocity    |-> runUp.velocity,
             hazardLevel |-> assessHazardLevel(arrivalWave.height, runUp.maxHeight),
             populationAtRisk |-> coastline.population ] >>)))))

\* for (const coastline of majorCoastlines) ... coastalEffects.push(...): the
\* effects pushed, in the order of the coastlines
PushCoastal(self, coastlines, propagationData, epicenter) ==
    LET pushed == [ i \in 1..Len(coastlines) |->
                      PushEffect(self, coastlines[i], propagationData, epicenter) ]
                  \o << >>
        kept   == { i \in 1..Len(coastlines) : pushed[i] # << >> }
        Nth(k) == CHOOSE i \in kept : Cardinality({ j \in kept : j <= i }) = k
    IN  [ k \in 1..Cardinality(kept) |-> pushed[Nth(k)][1] ] \o << >>

RECURSIVE InsertEffect(_, _)
\* x put into the sorted effects s before the first effect that arrives later
InsertEffect(s, x) ==
    IF s = << >> THEN <<x>>
    ELSE IF x.arrivalTime < Head(s).arrivalTime THEN <<x>> \o s
    ELSE <<Head(s)>> \o InsertEffect(Tail(s), x)

RECURSIVE SortEffects(_)
\* coastalEffects.sort((a, b) => a.arrivalTime - b.arrivalTime): stable
SortEffects(s) ==
    IF s = << >> THEN << >>
    ELSE InsertEffect(SortEffects(SubSeq(s, 1, Len(s) - 1)), s[Len(s)])

calculateCoastalEffects(self, propagationData, epicenter) ==
    SortEffects(PushCoastal(self, getMajorCoastlines(epicenter), propagationData, epicenter))

generateTsunamiVisualization(propagationData, coastalEffects) ==
    LET fronts == propagationData.waveFronts
    IN  [ epicenter |-> propagationData.epicenter,
          animationFrames |->
              [ i \in 1..Len(fronts) |->
                  [ time    |-> fronts[i].time,
                    radius  |-> fronts[i].radius,
                    height  |-> fronts[i].height,
                    opacity |-> Max(LgQ(1, 10),
                                    Div(fronts[i].height,
                                        propagationData.initialWave.height)) ] ],
          coastalMarkers |->
              [ i \in 1..Len(coastalEffects) |->
                  [ location    |-> coastalEffects[i].coordinates,
                    arrivalTime |-> coastalEffects[i].arrivalTime,
                    height      |-> coastalEffects[i].waveHeight,
                    hazard      |-> coastalEffects[i].hazardLevel ] ],
          duration |-> MaxOf([ i \in 1..Len(fronts) |-> fronts[i].time ]) ]

tsunamiArrivalTimes(epicenter, coastalEffects) ==
    [ i \in 1..Len(coastalEffects) |->
        [ location    |-> coastalEffects[i].location,
          arrivalTime |-> coastalEffects[i].arrivalTime,
          distance    |-> coastalEffects[i].distance ] ]

estimateEventDuration(initialWave) ==
    Max(Mul(initialWave.period, Lg(10)), Lg(6 * 3600))

calculateEnergyDistribution(initialWave, propagationData) ==
    LET fronts == propagationData.waveFronts
        n == IF Len(fronts) = 0 THEN 1 ELSE Len(fronts)
    IN  [ initialEnergy   |-> initialWave.energy,
          energyDecayRate |-> Div(initialWave.energy, Lg(n)),
          finalEnergy     |-> IF Len(fronts) > 0 THEN fronts[Len(fronts)].energy ELSE Zero ]

\* The values calculateTsunami returns
TsunamiInvalid ==
    [ generated |-> FALSE, reason |-> "Invalid coordinates provided",
      oceanImpact |-> << >>, maxHeight |-> Zero, coastalEffects |-> << >> ]

TsunamiLand(oceanImpact) ==
    [ generated |-> FALSE, reason |-> "Land impact - no tsunami generation",
      oceanImpact |-> oceanImpact, maxHeight |-> Zero, coastalEffects |-> << >> ]

TsunamiTooSmall(oceanImpact, initialWave) ==
    [ generated |-> FALSE, reason |-> "Wave height too small for significant tsunami",
      oceanImpact |-> oceanImpact, maxHeight |-> initialWave.height,
      waveData |-> initialWave, coastalEffects |-> << >> ]

TsunamiGenerated(location, oceanImpact, initialWave, propagationData, coastalEffects) ==
    [ generated      |-> TRUE,
      oceanImpact    |-> oceanImpact,
      initialWave    |-> initialWave,
      maxHeight      |-> MaxOf([ i \in 1..Len(coastalEffects) |->
                                   Get(coastalEffects[i], "maxHeight") ]),
      propagation    |-> propagationData,
      coastalEffects |-> coastalEffects,
      visualization  |-> generateTsunamiVisualization(propagationData, coastalEffects),
      arrivalTimes   |-> tsunamiArrivalTimes(location, coastalEffects),
      duration       |-> estimateEventDuration(initialWave),
      energyDistribution |-> calculateEnergyDistribution(initialWave, propagationData) ]

\* ------------------------------------------------------------------------
\* map/seismic-layers.js: ImpactCalculator.calculateImpact
\*
\* One activation of the async function is a frame: its position pc, its
\* parameters and locals, the results object under construction, the stage
\* calls it has made (trace) and the awaits at which it has given up the
\* thread (awaits).  Each step below is the code between two positions.
\* ------------------------------------------------------------------------
NumCalls == 2
Calls == 1..NumCalls

IdleFrame ==
    [ pc |-> "idle", parameters |-> << >>, phase2AtCall |-> TRUE,
      asteroidDensity |-> Undef, mass |-> Undef, kineticEnergy |-> Undef,
      momentum |-> Undef, atmosphereResults |-> << >>, finalEnergy |-> Undef,
      craterResults |-> << >>, blastResults |-> << >>, thermalResults |-> << >>,
      seismicResults |-> << >>, oceanImpact |-> << >>, initialWave |-> << >>,
      propagationData |-> << >>, coastalEffects |-> << >>, tsunamiResults |-> << >>,
      results |-> << >>, trace |-> << >>, awaits |-> << >>, interleaved |-> FALSE ]

Invoked(stage, energy, craterDiameter, computed) ==
    [ stage |-> stage, energy |-> energy, craterDiameter |-> craterDiameter,
      computed |-> computed ]

\* lines 522-538: destructuring (a TypeError when parameters is undefined),
\* density, mass, kinetic energy, momentum
Enter(parameters, phase2Enabled) ==
    IF ~parameters.defined
    THEN [ IdleFrame EXCEPT !.pc = "threw", !.parameters = parameters,
                            !.phase2AtCall = phase2Enabled ]
    ELSE Let(getAsteroidDensity(parameters.composition, parameters.density),
             LAMBDA asteroidDensity :
         Let(calculateMass(parameters.diameter, asteroidDensity), LAMBDA mass :
             [ IdleFrame EXCEPT
                 !.pc = "atmosphere",
                 !.parameters = parameters,
                 !.phase2AtCall = phase2Enabled,
                 !.asteroidDensity = asteroidDensity,
                 !.mass = mass,
                 !.kineticEnergy = calculateKineticEnergy(mass, parameters.velocity),
                 !.momentum = calculateMomentum(mass, parameters.velocity) ]))

\* the gate left out: the pipeline goes on after an airburst
ReturnsNever(atmosphereResults) == FALSE

\* line 566: if (!atmosphereResults.survivesAtmosphere) return early
ReturnsEarly(atmosphereResults) == ~atmosphereResults.survivesAtmosphere

\* the pre-entry energy handed on instead of the recomputed one
PreEntryEnergy(f, atmosphereResults) == f.kineticEnergy

\* line 577: the energy handed to every stage after atmospheric entry
FinalEnergy(f, atmosphereResults) ==
    calculateKineticEnergy(atmosphereResults.finalMass, atmosphereResults.finalVelocity)

\* lines 540-577: atmospheric entry, the results object, the early return
AtmosphereStep(f) ==
    Let(calculateAtmosphericEntry([ diameter |-> f.parameters.diameter,
                                    velocity |-> f.parameters.velocity,
                                    angle    |-> f.parameters.angle,
                                    density  |-> f.asteroidDensity,
                                    mass     |-> f.mass ]), LAMBDA atmosphereResults :
    Let([ diameter       |-> f.parameters.diameter,
          velocity       |-> f.parameters.velocity,
          angle          |-> f.parameters.angle,
          density        |-> f.asteroidDensity,
          mass           |-> f.mass,
          kineticEnergy  |-> f.kineticEnergy,
          momentum       |-> f.momentum,
          impactLocation |-> [ latitude  |-> f.parameters.latitude,
                               longitude |-> f.parameters.longitude ],
          survivesAtmosphere |-> atmosphereResults.survivesAtmosphere,
          finalVelocity  |-> atmosphereResults.finalVelocity,
          finalMass      |-> atmosphereResults.finalMass,
          finalDiameter  |-> atmosphereResults.finalDiameter ], LAMBDA results :
    Let(Append(f.trace, Invoked("calculateAtmosphericEntry", f.kineticEnergy,
                                Undef, << >>)), LAMBDA called :
        IF ReturnsEarly(atmosphereResults)
        THEN [ f EXCEPT
                 !.pc = "done",
                 !.atmosphereResults = atmosphereResults,
                 !.trace = called,
                 !.results = results @@
                     [ airburstAltitude |-> atmosphereResults.airburstAltitude,
                       airburstEnergy   |-> atmosphereResults.airburstEnergy ] ]
        ELSE [ f EXCEPT
                 !.pc = "crater",
                 !.atmosphereResults = atmosphereResults,
                 !.trace = called,
                 !.results = results,
                 !.finalEnergy = FinalEnergy(f, atmosphereResults) ])))

\* lines 580-586
CraterStep(this, f) ==
    [ f EXCEPT
        !.pc = "blast",
        !.trace = Append(@, Invoked("calculateCrater", f.finalEnergy, Undef, << >>)),
        !.craterResults =
            calculateCrater(this.craterCalc,
                            [ diameter |-> f.atmosphereResults.finalDiameter,
                              velocity |-> f.atmosphereResults.finalVelocity,
                              angle    |-> f.parameters.angle,
                              density  |-> f.asteroidDensity,
                              energy   |-> f.finalEnergy ]) ]

\* lines 588-591
BlastStep(f) ==
    [ f EXCEPT
        !.pc = "thermal",
        !.trace = Append(@, Invoked("calculateBlastWave", f.finalEnergy, Undef, << >>)),
        !.blastResults = calculateBlastWave([ energy |-> f.finalEnergy,
                                              angle  |-> f.parameters.angle ]) ]

\* lines 593-619: thermal radiation, then Object.assign of the phase-1 block
ThermalStep(f) ==
    Let(calculateThermalRadiation([ energy   |-> f.finalEnergy,
                                    diameter |-> f.atmosphereResults.finalDiameter ]),
        LAMBDA thermalResults :
        [ f EXCEPT
            !.pc = "phase2",
            !.trace = Append(@, Invoked("calculateThermalRadiation", f.finalEnergy,
                                        Undef, << >>)),
            !.thermalResults = thermalResults,
            !.results =
                [ craterDiameter    |-> f.craterResults.diameter,
                  craterDepth       |-> f.craterResults.depth,
                  craterVolume      |-> f.craterResults.volume,
                  rimHeight         |-> f.craterResults.rimHeight,
                  ejectaRange       |-> f.craterResults.ejectaRange,
                  blastRadius1psi   |-> f.blastResults.radius1psi,
                  blastRadius5psi   |-> f.blastResults.radius5psi,
                  blastRadius10psi  |-> f.blastResults.radius10psi,
                  overpressureRadii |-> f.blastResults.overpressureRadii,
                  thermalRadius1deg |-> thermalResults.radius1deg,
                  thermalRadius2deg |-> thermalResults.radius2deg,
                  thermalRadius3deg |-> thermalResults.radius3deg,
                  thermalDuration   |-> thermalResults.duration,
                  fireball          |-> thermalResults.fireball ] @@ f.results ])

\* line 622: if (this.isPhase2Enabled()), else line 666
Phase2CheckStep(f) ==
    IF isPhase2Enabled THEN [ f EXCEPT !.pc = "seismic" ]
                       ELSE [ f EXCEPT !.pc = "done" ]

\* the seismic stage made asynchronous and awaited
SeismicStepAwaited(this, f) ==
    Let(calculateSeismicEffects(this.seismicCalc,
                                [ energy   |-> f.finalEnergy,
                                  location |-> [ latitude  |-> f.parameters.latitude,
                                                 longitude |-> f.parameters.longitude ],
                                  craterDiameter |-> f.craterResults.diameter ]),
        LAMBDA seismic :
        [ f EXCEPT
            !.pc = "tsunami",
            !.trace = Append(@, Invoked("calculateSeismicEffects", f.finalEnergy,
                                        f.craterResults.diameter, seismic.computed)),
            !.seismicResults = seismic.value,
            !.awaits = Append(@, "calculateSeismicEffects") ])

\* lines 626-630
SeismicStep(this, f) ==
    Let(calculateSeismicEffects(this.seismicCalc,
                                [ energy   |-> f.finalEnergy,
                                  location |-> [ latitude  |-> f.parameters.latitude,
                                                 longitude |-> f.parameters.longitude ],
                                  craterDiameter |-> f.craterResults.diameter ]),
        LAMBDA seismic :
        [ f EXCEPT
            !.pc = "tsunami",
            !.trace = Append(@, Invoked("calculateSeismicEffects", f.finalEnergy,
                                        f.craterResults.diameter, seismic.computed)),
            !.seismicResults = seismic.value ])

Location(f) == [ latitude  |-> f.parameters.latitude,
                 longitude |-> f.parameters.longitude ]

\* line 634 and tsunami.js lines 20-37: calculateTsunami runs to its first
\* await (of determineOceanImpact, whose body has run), or returns at once on
\* an invalid location; either way calculateImpact now waits at line 634
TsunamiCallStep(f) ==
    Let(Append(f.trace, Invoked("calculateTsunami", f.finalEnergy,
                                f.craterResults.diameter, << >>)), LAMBDA called :
        IF InvalidLocation(Location(f))
        THEN [ f EXCEPT !.pc = "tsunamiReturn",
                        !.trace = called,
                        !.tsunamiResults = TsunamiInvalid,
                        !.awaits = Append(@, "calculateTsunami") ]
        ELSE [ f EXCEPT !.pc = "oceanLookup",
                        !.trace = called,
                        !.oceanImpact = determineOceanImpact(Location(f)),
                        !.awaits = Append(@, "determineOceanImpact") ])

\* tsunami.js lines 39-66: after the ocean lookup, up to the await of
\* modelWavePropagation (whose body has run) or a return
OceanResumeStep(this, f) ==
    Let(calculateInitialWave(this.tsunamiCalc, f.finalEnergy, f.oceanImpact.waterDepth,
                             f.craterResults.diameter), LAMBDA initialWave :
        IF ~f.oceanImpact.inOcean
        THEN [ f EXCEPT !.pc = "tsunamiReturn",
                        !.tsunamiResults = TsunamiLand(f.oceanImpact),
                        !.awaits = Append(@, "calculateTsunami") ]
        ELSE IF Lt(initialWave.height, LgQ(1, 10))
        THEN [ f EXCEPT !.pc = "tsunamiReturn",
                        !.initialWave = initialWave,
                        !.tsunamiResults = TsunamiTooSmall(f.oceanImpact, initialWave),
                        !.awaits = Append(@, "calculateTsunami") ]
        ELSE [ f EXCEPT !.pc = "propagation",
                        !.initialWave = initialWave,
                        !.propagationData = modelWavePropagation(initialWave, Location(f)),
                        !.awaits = Append(@, "modelWavePropagation") ])

\* tsunami.js lines 68-69: up to the await of calculateCoastalEffects
PropagationResumeStep(this, f) ==
    [ f EXCEPT !.pc = "coastal",
               !.coastalEffects = calculateCoastalEffects(this.tsunamiCalc,
                                                          f.propagationData, Location(f)),
               !.awaits = Append(@, "calculateCoastalEffects") ]

\* tsunami.js lines 71-85: the visualization data and the returned value
CoastalResumeStep(f) ==
    [ f EXCEPT !.pc = "tsunamiReturn",
               !.tsunamiResults = TsunamiGenerated(Location(f), f.oceanImpact,
                                                   f.initialWave, f.propagationData,
                                                   f.coastalEffects),
               !.awaits = Append(@, "calculateTsunami") ]

\* lines 642-666: phase2Data, Object.assign, return
MergeStep(f) ==
    [ f EXCEPT
        !.pc = "done",
        !.results =
            [ seismicMagnitude   |-> Get(f.seismicResults, "magnitude"),
              seismicSignificant |-> Get(f.seismicResults, "significant"),
              seismicRadius      |-> Get(f.seismicResults, "effectRadius"),
              seismicZones       |-> Get(f.seismicResults, "zones"),
              groundMotion       |-> Get(f.seismicResults, "groundMotion"),
              buildingDamage     |-> Get(f.seismicResults, "damageAssessment"),
              seismicDuration    |-> Get(f.seismicResults, "duration"),
              tsunamiGenerated      |-> Get(f.tsunamiResults, "generated"),
              tsunamiMaxHeight      |-> Get(f.tsunamiResults, "maxHeight"),
              tsunamiOceanImpact    |-> Get(f.tsunamiResults, "oceanImpact"),
              tsunamiPropagation    |-> Get(f.tsunamiResults, "propagation"),
              tsunamiCoastalEffects |-> Get(f.tsunamiResults, "coastalEffects"),
              tsunamiVisualization  |-> Get(f.tsunamiResults, "visualization"),
              tsunamiArrivalTimes   |-> Get(f.tsunamiResults, "arrivalTimes") ] @@ f.results ]

\* one step of calculateImpact from position f.pc
StepOf(this, f) ==
    CASE f.pc = "atmosphere"    -> AtmosphereStep(f)
      [] f.pc = "crater"        -> CraterStep(this, f)
      [] f.pc = "blast"         -> BlastStep(f)
      [] f.pc = "thermal"       -> ThermalStep(f)
      [] f.pc = "phase2"        -> Phase2CheckStep(f)
      [] f.pc = "seismic"       -> SeismicStep(this, f)
      [] f.pc = "tsunami"       -> TsunamiCallStep(f)
      [] f.pc = "oceanLookup"   -> OceanResumeStep(this, f)
      [] f.pc = "propagation"   -> PropagationResumeStep(this, f)
      [] f.pc = "coastal"       -> CoastalResumeStep(f)
      [] f.pc = "tsunamiReturn" -> MergeStep(f)
      [] OTHER                  -> f

\* calculateImpact run from f to its return with nothing else scheduled
RECURSIVE RunAlone(_, _)
RunAlone(this, f) ==
    IF f.pc \in { "idle", "done", "threw" } THEN f
    ELSE RunAlone(this, StepOf(this, f))

\* ------------------------------------------------------------------------
\* The parameters the model draws for a simulation run
\* ------------------------------------------------------------------------
Params(diameter, velocity, angle, composition, density, latitude, longitude) ==
    [ defined |-> TRUE, diameter |-> diameter, velocity |-> velocity, angle |-> angle,
      composition |-> composition, density |-> density,
      latitude |-> latitude, longitude |-> longitude ]

\* runSimulation(undefined)
NoParameters == [ defined |-> FALSE ]

Scenarios ==
    << \* airburst (10 m rock at 20 km/s)
       Params(Lg(10), Lg(20), 45, "rock", Undef, 41, 0 - 74),
       \* the tunguska preset: ground impact on land
       Params(Lg(60), Lg(27), 30, "rock", Undef, 61, 102),
       \* the chicxulub preset
       Params(Lg(10000), Lg(20), 45, "rock", Undef, 21, 0 - 90),
       \* a small fast ice body that reaches the ground on land
       Params(Lg(15), Lg(72), 45, "ice", Undef, 61, 102),
       \* the default parameters of SimulationState
       Params(Lg(100), Lg(20), 45, "rock", Lg(2700), 41, 0 - 74),
       \* a grazing impact over the ocean, and a vertical one of iron
       Params(Lg(100), Lg(20), 0, "rock", Undef, 0, 0 - 30),
       Params(Lg(100), Lg(20), 90, "iron", Undef, 65, 0 - 30),
       \* custom densities
       Params(Lg(100), Lg(20), 60, "custom", Lg(5000), 41, 0 - 74),
       Params(Lg(100), Lg(20), 45, "custom", Undef, 61, 102),
       Params(Lg(100), Lg(20), 45, "custom", NaN, 61, 102),
       \* malformed numeric fields
       Params(Undef, Lg(20), 45, "rock", Undef, 41, 0 - 74),
       Params(NaN, Lg(20), 45, "rock", Undef, 41, 0 - 74),
       Params(Lg(100), Undef, 45, "rock", Undef, 41, 0 - 74),
       Params(Lg(100), Lg(20), Undef, "rock", Undef, 41, 0 - 74),
       Params(Lg(100), Lg(20), NaN, "rock", Undef, 61, 102),
       \* malformed locations
       Params(Lg(100), Lg(20), 45, "rock", Undef, Undef, 0 - 74),
       Params(Lg(100), Lg(20), 45, "rock", Undef, 41, Undef),
       Params(Lg(100), Lg(20), 45, "rock", Undef, NaN, 0 - 150),
       NoParameters >>

ParamSet == { Scenarios[i] : i \in 1..Len(Scenarios) }

\* ------------------------------------------------------------------------
\* map/layers.js, map/seismic-layers.js and the VisualizationManager: the
\* effect layers on the map
\*
\* The layers are a set of records, one per layer id; the id `name-i` is the
\* pair <<name, i>>, and an id without an index has index 0.  Visibility,
\* colours, labels and markers are left out.
\* ------------------------------------------------------------------------
LayerId(name, index) == << name, index >>

\* typeof center.lat !== 'number' || typeof center.lng !== 'number'
ValidCenter(center) == IsNumber(center.lat) /\ IsNumber(center.lng)

\* !radius || radius <= 0
ValidRadius(radius) == ~IsNaN(radius) /\ radius > Zero

removeLayer(layers, layerId) == { l \in layers : l.id # layerId }

addCircleLayer(layers, id, center, radius) ==
    IF ~ValidCenter(center) \/ ~ValidRadius(radius) THEN layers
    ELSE removeLayer(layers, id)
         \cup { [ id |-> id, type |-> "circle", center |-> center,
                  radius |-> radius, innerRadius |-> Zero, hole |-> Zero ] }

\* the radius of the hole in the geometry of a ring: turf.difference(outerCircle,
\* innerCircle), and the whole outer circle when there is no inner radius or
\* the difference is empty
RingHole(outerRadius, innerRadius) ==
    IF ValidRadius(innerRadius) /\ innerRadius < outerRadius THEN innerRadius ELSE Zero

addRingLayer(layers, id, center, outerRadius, innerRadius) ==
    IF ~ValidCenter(center) \/ ~ValidRadius(outerRadius) THEN layers
    ELSE removeLayer(layers, id)
         \cup { [ id |-> id, type |-> "ring", center |-> center,
                  radius |-> outerRadius, innerRadius |-> innerRadius,
                  hole |-> RingHole(outerRadius, innerRadius) ] }

\* the layer names that contain one of the patterns 'blast-wave-', 'thermal-',
\* 'crater-', 'seismic-', 'tsunami-', 'casualties-'
EffectPatternNames ==
    { "crater-layer", "blast-wave-layer", "thermal-layer", "seismic-layer",
      "seismic-intensity", "seismic-wave", "tsunami-layer", "casualties-layer" }

clearAllEffectLayers(layers) ==
    LET named == { LayerId("crater-layer", 0) }
                 \cup { LayerId("blast-wave-layer", i) : i \in 0..9 }
                 \cup { LayerId("thermal-layer", i) : i \in 0..9 }
                 \cup { LayerId(name, 0) :
                          name \in { "seismic-layer", "tsunami-layer", "casualties-layer" } }
        remaining == { l \in layers : l.id \notin named }
    IN  { l \in remaining : l.id[1] \notin EffectPatternNames }

clearSeismicLayers(layers) ==
    LET named == { LayerId("seismic-intensity", i) : i \in 0..19 }
                 \cup { LayerId("damage-zone", i) : i \in 0..19 }
                 \cup { LayerId("seismic-wave", 0) }
    IN  { l \in layers : l.id \notin named }

visualizeCrater(layers, center, diameter) ==
    addCircleLayer(layers, LayerId("crater-layer", 0), center, Div(diameter, Lg(2)))

\* zones.filter(zone => zone.radius && zone.radius > 0)
\*      .sort((a, b) => b.radius - a.radius)
SortedRings(radii) ==
    LET kept   == { i \in 1..Len(radii) : ValidRadius(radii[i]) }
        Nth(k) == CHOOSE i \in kept : Cardinality({ j \in kept : j <= i }) = k
    IN  SortZones([ k \in 1..Cardinality(kept) |-> [ radius |-> radii[Nth(k)] ] ] \o << >>)

RECURSIVE AddRingLayers(_, _, _, _, _)
\* sortedZones.forEach((zone, index) => addRingLayer(`name-${index}`, ...)),
\* from the zone at position index on
AddRingLayers(layers, name, center, sortedZones, index) ==
    IF index > Len(sortedZones) THEN layers
    ELSE AddRingLayers(
             addRingLayer(layers, LayerId(name, index - 1), center,
                          sortedZones[index].radius,
                          IF index < Len(sortedZones) THEN sortedZones[index + 1].radius
                                                      ELSE Zero),
             name, center, sortedZones, index + 1)

visualizeBlastWave(layers, center, results) ==
    AddRingLayers(layers, "blast-wave-layer", center,
                  SortedRings(<< Get(results, "blastRadius10psi"),
                                 Get(results, "blastRadius5psi"),
                                 Get(results, "blastRadius1psi") >>), 1)

visualizeThermalRadiation(layers, center, results) ==
    AddRingLayers(layers, "thermal-layer", center,
                  SortedRings(<< Get(results, "thermalRadius1deg"),
                                 Get(results, "thermalRadius2deg"),
                                 Get(results, "thermalRadius3deg") >>), 1)

RECURSIVE AddZoneLayers(_, _, _)
\* sortedZones.forEach((zone, index) => ...): a circle per valid zone, named by
\* the zone's intensity
AddZoneLayers(layers, sortedZones, index) ==
    IF index > Len(sortedZones) THEN layers
    ELSE LET zone == sortedZones[index]
             valid == /\ IsNumber(zone.center.latitude)
                      /\ IsNumber(zone.center.longitude)
                      /\ ValidRadius(zone.radius)
         IN  AddZoneLayers(
                 IF valid
                 THEN addCircleLayer(layers, LayerId("seismic-intensity", zone.intensity),
                                     [ lat |-> zone.center.latitude,
                                       lng |-> zone.center.longitude ],
                                     zone.radius)
                 ELSE layers,
                 sortedZones, index + 1)

addIntensityZones(layers, seismicData) ==
    IF ~seismicData.significant \/ Len(seismicData.zones) = 0 THEN layers
    ELSE AddZoneLayers(clearSeismicLayers(layers), SortZones(seismicData.zones), 1)

\* results && results.seismicSignificant
isPhase2Available(results) == Get(results, "seismicSignificant") = TRUE

\* the seismic part; the wave animation starts only while an animation is
\* playing, and the tsunami part is commented out in the source
visualizePhase2Effects(layers, results, parameters) ==
    IF ~IsNumber(parameters.latitude) \/ ~IsNumber(parameters.longitude) THEN layers
    ELSE IF Get(results, "seismicSignificant") = TRUE /\ "seismicZones" \in DOMAIN results
         THEN addIntensityZones(layers, [ significant |-> results.seismicSignificant,
                                          magnitude   |-> results.seismicMagnitude,
                                          zones       |-> results.seismicZones ])
         ELSE layers

\* the Phase 1 layers of visualizeEffects, added to layers
visualizePhase1(layers, center, results) ==
    visualizeThermalRadiation(
        visualizeBlastWave(
            visualizeCrater(layers, center, Get(results, "craterDiameter")),
            center, results),
        center, results)

\* the layers visualizeEffects(results, parameters) leaves on the map
visualizeEffects(layers, results, parameters) ==
    Let(visualizePhase1(clearSeismicLayers(clearAllEffectLayers(layers)),
                        [ lat |-> parameters.latitude, lng |-> parameters.longitude ],
                        results), LAMBDA phase1 :
        IF isPhase2Available(results) THEN visualizePhase2Effects(phase1, results, parameters)
                                      ELSE phase1)

\* ------------------------------------------------------------------------
\* EventEmitter (the base class of SimulationState, UIController and the
\* managers)
\*
\* A listener is the function that sits in the callbacks array: a callback
\* registered with on is itself (closure 0), a callback registered with once
\* is wrapped in a new onceCallback closure, numbered by creation.  A callback
\* is named after what its body does: it returns, it throws, or it emits the
\* event again unless it is itself running inside an emit that a callback
\* made.  `invoked` lists the calls of callbacks that the latest call on the
\* emitter made, each with the nesting depth of the emit that made it;
\* `eventName` is the event of that call when it was an emit, `times` counts
\* the calls of each onceCallback closure, and `emitted` the top-level emits.
\* ------------------------------------------------------------------------
EventNames == { "resultsUpdated", "stateReset" }
Callbacks == { "returns", "throws", "emits" }

Listener(callback, closure) == [ callback |-> callback, closure |-> closure ]

\* the constructor
NewEventEmitter ==
    [ events |-> << >>, closures |-> 0, invoked |-> << >>, eventName |-> "",
      times |-> << >>, emitted |-> 0 ]

\* Map.set
SetEvent(events, eventName, callbacks) ==
    [ e \in DOMAIN events \cup { eventName } |->
          IF e = eventName THEN callbacks ELSE events[e] ]

\* Array.indexOf, 0 for -1
IndexOf(callbacks, listener) ==
    IF \E i \in 1..Len(callbacks) : callbacks[i] = listener
    THEN CHOOSE i \in 1..Len(callbacks) :
             /\ callbacks[i] = listener
             /\ \A j \in 1..(i - 1) : callbacks[j] # listener
    ELSE 0

\* Array.splice(index, 1)
Splice(callbacks, index) ==
    [ i \in 1..(Len(callbacks) - 1) |->
          IF i < index THEN callbacks[i] ELSE callbacks[i + 1] ]

on(e, eventName, listener) ==
    [ e EXCEPT !.events =
          SetEvent(e.events, eventName,
                   IF eventName \in DOMAIN e.events
                   THEN Append(e.events[eventName], listener)
                   ELSE << listener >>) ]

off(e, eventName, listener) ==
    IF eventName \notin DOMAIN e.events THEN e
    ELSE IF IndexOf(e.events[eventName], listener) > 0
         THEN [ e EXCEPT !.events[eventName] =
                    Splice(e.events[eventName],
                           IndexOf(e.events[eventName], listener)) ]
         ELSE e

\* once: a new onceCallback closure around the callback is what is registered
once(e, eventName, callback) ==
    on([ e EXCEPT !.closures = e.closures + 1, !.times = Append(e.times, 0) ],
       eventName, Listener(callback, e.closures + 1))

\* a completed call: the emitter after it, and whether it threw
Completion(e, threw) == [ emitter |-> e, threw |-> threw ]

RECURSIVE emit(_, _, _)
RECURSIVE ForEach(_, _, _, _, _)

\* the body of a callback, entered at nesting depth `depth`
CallCallback(e, eventName, listener, depth) ==
    Let([ e EXCEPT !.invoked = Append(e.invoked, [ listener |-> listener,
                                                     depth |-> depth ]),
                   !.times = IF listener.closure = 0 THEN e.times
                             ELSE [ e.times EXCEPT ![listener.closure] = @ + 1 ] ],
        LAMBDA entered :
            IF listener.callback = "throws" THEN Completion(entered, TRUE)
            ELSE IF listener.callback = "emits" /\ depth = 0
                 THEN Completion(emit(entered, eventName, depth + 1), FALSE)
                 ELSE Completion(entered, FALSE))

\* lines 44-47: onceCallback calls the callback and then off(); a throw of the
\* callback leaves before the off()
CallListener(e, eventName, listener, depth) ==
    IF listener.closure = 0 THEN CallCallback(e, eventName, listener, depth)
    ELSE Let(CallCallback(e, eventName, listener, depth), LAMBDA called :
             IF called.threw THEN called
             ELSE Completion(off(called.emitter, eventName, listener), FALSE))

\* Array.forEach over the callbacks array itself: the length is read once,
\* the element at index k is read when its turn comes, and an index that no
\* longer exists is skipped.  try/catch: a throw is logged and dropped
ForEach(e, eventName, k, length, depth) ==
    IF k > length THEN e
    ELSE IF k > Len(e.events[eventName])
         THEN ForEach(e, eventName, k + 1, length, depth)
         ELSE ForEach(CallListener(e, eventName, e.events[eventName][k], depth).emitter,
                      eventName, k + 1, length, depth)

emit(e, eventName, depth) ==
    IF eventName \notin DOMAIN e.events THEN e
    ELSE ForEach(e, eventName, 1, Len(e.events[eventName]), depth)

\* Map.delete, or Map.clear when no event is named
removeAllListeners(e, eventName) ==
    [ e EXCEPT !.events = IF eventName = "" \/ DOMAIN e.events \subseteq { eventName }
                          THEN << >>
                          ELSE [ n \in DOMAIN e.events \ { eventName } |-> e.events[n] ] ]

\* ------------------------------------------------------------------------
\* State
\* ------------------------------------------------------------------------
VARIABLES
    simulator,      \* AsteroidImpactSimulator: phase2Enabled, currentPhase
    visualization,  \* VisualizationManager: phase2Enabled
    localStorage,   \* the 'phase2Enabled' item
    calculators,    \* ImpactCalculator: the fields of its stage calculators
    frames,         \* the activations of calculateImpact, one per call slot
    direct,         \* a call of one calculator's method by itself: its
                    \* arguments and what it returned
    layerManager,   \* LayerManager: the effect layers on the map
    displayManager, \* DisplayManager: the status and the results it shows
    emitter         \* an EventEmitter: its events map and what it has invoked

vars == <<simulator, visualization, localStorage, calculators, frames, direct,
         layerManager, displayManager, emitter>>

\* the constructor of ImpactCalculator
NewCalculators ==
    [ craterCalc  |-> CraterCalculator,
      seismicCalc |-> SeismicCalculator,
      tsunamiCalc |-> TsunamiCalculator ]

\* the positions at which a frame holds the thread; at every other position it
\* is idle, finished, or suspended at an await
Synchronous == { "atmosphere", "crater", "blast", "thermal", "phase2", "seismic", "tsunami" }
Suspended == { "oceanLookup", "propagation", "coastal", "tsunamiReturn" }
Holds(c) == frames[c].pc \in Synchronous
ThreadFree == \A c \in Calls : ~Holds(c)

\* no calculator method is called by itself
\* the display before any run
Ready == [ status |-> "Ready", results |-> << >> ]

NoDirectCall == [ method |-> "none", returned |-> TRUE ]

\* after new AsteroidImpactSimulator() and init(): updatePhaseIndicator has
\* enabled phase 2 on the visualization manager and stored the item
Init ==
    /\ simulator = [ phase2Enabled |-> TRUE, currentPhase |-> 2 ]
    /\ visualization = [ phase2Enabled |-> TRUE ]
    /\ localStorage = "true"
    /\ calculators = NewCalculators
    /\ frames = [ c \in Calls |-> IdleFrame ]
    /\ direct = NoDirectCall
    /\ layerManager = [ layers |-> { } ]
    /\ displayManager = Ready
    /\ emitter = NewEventEmitter

\* ------------------------------------------------------------------------
\* Actions
\* ------------------------------------------------------------------------
\* the 'phase2Toggle' event: togglePhase2Features(enabled), with the
\* updatePhaseIndicator() it ends on
togglePhase2Features(enabled) ==
    LET currentPhase == IF enabled /\ simulator.currentPhase < 2 THEN 2
                                                                  ELSE simulator.currentPhase
    IN  /\ ThreadFree
        /\ simulator' = [ phase2Enabled |-> enabled, currentPhase |-> currentPhase ]
        /\ visualization' = [ phase2Enabled |-> IF currentPhase >= 2 THEN TRUE ELSE enabled ]
        /\ localStorage' = IF enabled THEN "true" ELSE "false"
        /\ layerManager' = IF enabled THEN layerManager
                           ELSE [ layers |-> clearSeismicLayers(layerManager.layers) ]
        /\ UNCHANGED <<calculators, frames, direct, displayManager, emitter>>

\* frame c takes a step; a call suspended at an await meanwhile has been
\* interleaved with (a history field, read by no step)
Steps(c, f) ==
    /\ frames' = [ d \in Calls |->
                      IF d = c THEN f
                      ELSE IF frames[d].pc \in Suspended
                           THEN [ frames[d] EXCEPT !.interleaved = TRUE ]
                           ELSE frames[d] ]
    /\ UNCHANGED <<simulator, visualization, localStorage, calculators, direct,
                   layerManager, displayManager, emitter>>

\* runSimulation(parameters) calls calculateImpact(parameters)
CallCalculateImpact(c, parameters) ==
    /\ ThreadFree
    /\ frames[c].pc = "idle"
    /\ Steps(c, Enter(parameters, simulator.phase2Enabled))

AtmosphericEntry(c) ==
    /\ frames[c].pc = "atmosphere"
    /\ Steps(c, AtmosphereStep(frames[c]))

\* the crater calculator keeping the last impactor's density as its target
CraterKeepingDensity(c) ==
    /\ frames[c].pc = "crater"
    /\ frames' = [ frames EXCEPT ![c] = CraterStep(calculators, frames[c]) ]
    /\ calculators' = [ calculators EXCEPT
                           !.craterCalc.targetDensity = frames[c].asteroidDensity ]
    /\ UNCHANGED <<simulator, visualization, localStorage, direct,
                   layerManager, displayManager, emitter>>

Crater(c) ==
    /\ frames[c].pc = "crater"
    /\ Steps(c, CraterStep(calculators, frames[c]))

BlastWave(c) ==
    /\ frames[c].pc = "blast"
    /\ Steps(c, BlastStep(frames[c]))

ThermalRadiation(c) ==
    /\ frames[c].pc = "thermal"
    /\ Steps(c, ThermalStep(frames[c]))

Phase2Check(c) ==
    /\ frames[c].pc = "phase2"
    /\ Steps(c, Phase2CheckStep(frames[c]))

Seismic(c) ==
    /\ frames[c].pc = "seismic"
    /\ Steps(c, SeismicStep(calculators, frames[c]))

TsunamiCall(c) ==
    /\ frames[c].pc = "tsunami"
    /\ Steps(c, TsunamiCallStep(frames[c]))

\* the ocean classification kept in a field of the shared calculator: the
\* continuation reads what a call waiting for its lookup left there
OceanResumeShared(c) ==
    /\ ThreadFree
    /\ frames[c].pc = "oceanLookup"
    /\ \E d \in Calls :
           /\ frames[d].pc = "oceanLookup"
           /\ Steps(c, OceanResumeStep(calculators,
                                       [ frames[c] EXCEPT !.oceanImpact = frames[d].oceanImpact ]))

\* the continuations run when the thread is free
OceanResume(c) ==
    /\ ThreadFree
    /\ frames[c].pc = "oceanLookup"
    /\ Steps(c, OceanResumeStep(calculators, frames[c]))

PropagationResume(c) ==
    /\ ThreadFree
    /\ frames[c].pc = "propagation"
    /\ Steps(c, PropagationResumeStep(calculators, frames[c]))

CoastalResume(c) ==
    /\ ThreadFree
    /\ frames[c].pc = "coastal"
    /\ Steps(c, CoastalResumeStep(frames[c]))

Phase2Merge(c) ==
    /\ ThreadFree
    /\ frames[c].pc = "tsunamiReturn"
    /\ Steps(c, MergeStep(frames[c]))

\* runSimulation takes the result (or catches the error): the slot is free again
Return(c) ==
    /\ ThreadFree
    /\ frames[c].pc \in { "done", "threw" }
    /\ Steps(c, IdleFrame)

Next ==
    \/ \E enabled \in BOOLEAN : togglePhase2Features(enabled)
    \/ \E c \in Calls, parameters \in ParamSet : CallCalculateImpact(c, parameters)
    \/ \E c \in Calls : AtmosphericEntry(c)
    \/ \E c \in Calls : Crater(c)
    \/ \E c \in Calls : BlastWave(c)
    \/ \E c \in Calls : ThermalRadiation(c)
    \/ \E c \in Calls : Phase2Check(c)
    \/ \E c \in Calls : Seismic(c)
    \/ \E c \in Calls : TsunamiCall(c)
    \/ \E c \in Calls : OceanResume(c)
    \/ \E c \in Calls : PropagationResume(c)
    \/ \E c \in Calls : CoastalResume(c)
    \/ \E c \in Calls : Phase2Merge(c)
    \/ \E c \in Calls : Return(c)

Spec == Init /\ [][Next]_vars

\* ------------------------------------------------------------------------
\* The stage calculators called by themselves, on arguments drawn from ranges
\* ------------------------------------------------------------------------
MaxEnergyExponent == 30

\* 0 and the energies from 10^-3 J to 10^MaxEnergyExponent J, two per decade
Energies == { Zero } \cup { 500 * k : k \in (0 - 6)..(2 * MaxEnergyExponent) }

\* the angles of [0, 90] on which Sin is tabulated
Angles == { 0, 30, 45, 60, 90 }

CraterDiameters == { Lg(d) : d \in { 1, 30, 500, 2000, 5000, 20000, 100000, 400000 } }

Diameters == << Lg(60), Lg(100), Lg(300), Lg(1000), Lg(10000) >>

\* the wave fronts of a 10^17 J impact with a 1500 m crater in 4000 m of water
SampleFronts ==
    WaveFronts(calculateInitialWave(TsunamiCalculator, 17000, Lg(4000), Lg(1500)))

MaxTargetThirds == 36

\* target distances: the thirds of the radius of the front of the first hour
TargetDistances == { Mul(SampleFronts[2].radius, LgQ(q, 3)) : q \in 1..MaxTargetThirds }

\* the crater diameters (m) and water depths (m) of the initial waves computed alone
WaveCraterDiameters ==
    { Zero } \cup { Lg(d) : d \in { 100, 500, 800, 1200, 1600, 2000, 5000, 100000 } }
WaveDepths == { Lg(2000), Lg(3000), Lg(4000) }

DirectCall(method, arguments) ==
    [ method |-> method, arguments |-> arguments, returned |-> FALSE ]

DirectCalls ==
    { DirectCall("calculateBlastWave", [ energy |-> e, angle |-> a ]) :
          e \in Energies, a \in Angles }
    \cup { DirectCall("calculateThermalRadiation", [ energy |-> e ]) : e \in Energies }
    \cup { DirectCall("calculateSeismicEffects",
                      [ energy |-> e, location |-> [ latitude |-> 61, longitude |-> 102 ],
                        craterDiameter |-> d ]) : e \in Energies, d \in CraterDiameters }
    \cup { DirectCall("calculateImpact",
                      [ velocity |-> Lg(v), angle |-> a, composition |-> c ]) :
               v \in { 20, 27 }, a \in Angles, c \in { "rock", "iron" } }
    \cup { DirectCall("findWaveAtDistance",
                      [ waveFronts |-> SampleFronts, targetDistance |-> d ]) :
               d \in TargetDistances }
    \cup { DirectCall("calculateInitialWave",
                      [ energy |-> e, waterDepth |-> h, craterDiameter |-> d ]) :
               e \in { 16000, 19000 }, h \in WaveDepths, d \in WaveCraterDiameters }

DirectInit ==
    /\ simulator = [ phase2Enabled |-> TRUE, currentPhase |-> 2 ]
    /\ visualization = [ phase2Enabled |-> TRUE ]
    /\ localStorage = "true"
    /\ calculators = NewCalculators
    /\ frames = [ c \in Calls |-> IdleFrame ]
    /\ direct \in DirectCalls
    /\ layerManager = [ layers |-> { } ]
    /\ displayManager = Ready
    /\ emitter = NewEventEmitter

Returns(method, value) ==
    /\ direct.method = method
    /\ ~direct.returned
    /\ direct' = [ method |-> method, arguments |-> direct.arguments,
                   returned |-> TRUE, value |-> value ]
    /\ UNCHANGED <<simulator, visualization, localStorage, calculators, frames,
                   layerManager, displayManager, emitter>>

DirectBlastWave ==
    Returns("calculateBlastWave", calculateBlastWave(direct.arguments))

DirectThermalRadiation ==
    Returns("calculateThermalRadiation", calculateThermalRadiation(direct.arguments))

DirectSeismicEffects ==
    Returns("calculateSeismicEffects",
            calculateSeismicEffects(calculators.seismicCalc, direct.arguments).value)

\* calculateImpact called for each of Diameters in turn on a new calculator,
\* the other parameters held fixed
DirectImpacts ==
    Returns("calculateImpact",
            [ i \in 1..Len(Diameters) |->
                RunAlone(NewCalculators,
                         Enter(Params(Diameters[i], direct.arguments.velocity,
                                      direct.arguments.angle,
                                      direct.arguments.composition, Undef, 61, 102),
                               TRUE)).results ] \o << >>)

\* the index of the front found, 0 for undefined
DirectFindWave ==
    Returns("findWaveAtDistance",
            findWaveAtDistance(direct.arguments.waveFronts, direct.arguments.targetDistance))

DirectInitialWave ==
    Returns("calculateInitialWave",
            calculateInitialWave(TsunamiCalculator, direct.arguments.energy,
                                 direct.arguments.waterDepth,
                                 direct.arguments.craterDiameter))

DirectNext ==
    \/ DirectBlastWave
    \/ DirectThermalRadiation
    \/ DirectSeismicEffects
    \/ DirectImpacts
    \/ DirectFindWave
    \/ DirectInitialWave

DirectSpec == DirectInit /\ [][DirectNext]_vars

Returned(method) == direct.method = method /\ direct.returned

\* ------------------------------------------------------------------------
\* The simulator run after run: the 'simulate', 'newSimulation' and
\* 'phase2Toggle' events, each run taken to its end before the next event
\* ------------------------------------------------------------------------
\* the scenarios run: all but those whose latitude or longitude is NaN, which
\* pass the layer manager's typeof checks and reach the map library
Runs ==
    { n \in 1..Len(Scenarios) :
          Scenarios[n].defined =>
              Scenarios[n].latitude # NaN /\ Scenarios[n].longitude # NaN }

\* what runSimulation does once calculateImpact has ended in frame f: the error
\* report of the catch branch, or the airburst report and the early return, or
\* visualizeEffects and the full report
ShowRun(parameters, f) ==
    /\ IF f.pc = "threw"
       THEN /\ displayManager' =
                   [ displayManager EXCEPT
                         !.status = "Simulation failed. Please check your parameters." ]
            /\ UNCHANGED layerManager
       ELSE IF ~f.results.survivesAtmosphere
       THEN /\ displayManager' =
                   [ status  |-> "Asteroid disintegrates in atmosphere",
                     results |-> [ survivesAtmosphere |-> FALSE,
                                   airburstAltitude   |-> f.results.airburstAltitude,
                                   airburstEnergy     |-> f.results.airburstEnergy ] ]
            /\ UNCHANGED layerManager
       ELSE /\ layerManager' =
                   [ layers |-> visualizeEffects(layerManager.layers, f.results, parameters) ]
            /\ displayManager' = [ status |-> "Simulation complete", results |-> f.results ]
    /\ UNCHANGED <<simulator, visualization, localStorage, calculators, frames, direct, emitter>>

\* runSimulation(parameters), from the call of calculateImpact to the end
runSimulation(n) ==
    /\ ThreadFree
    /\ ShowRun(Scenarios[n],
               RunAlone(calculators, Enter(Scenarios[n], simulator.phase2Enabled)))

startNewSimulation ==
    /\ layerManager' =
           [ layers |-> clearSeismicLayers(clearAllEffectLayers(layerManager.layers)) ]
    /\ displayManager' = [ displayManager EXCEPT !.status = "Ready" ]
    /\ UNCHANGED <<simulator, visualization, localStorage, calculators, frames, direct, emitter>>

SimulatorNext ==
    \/ \E enabled \in BOOLEAN : togglePhase2Features(enabled)
    \/ \E n \in Runs : runSimulation(n)
    \/ startNewSimulation

SimulatorSpec == Init /\ [][SimulatorNext]_vars

\* ------------------------------------------------------------------------
\* Properties
\* ------------------------------------------------------------------------
PipelineOrder ==
    << "calculateAtmosphericEntry", "calculateCrater", "calculateBlastWave",
       "calculateThermalRadiation", "calculateSeismicEffects", "calculateTsunami" >>

Phase1Fields ==
    { "craterDiameter", "craterDepth", "craterVolume", "rimHeight", "ejectaRange",
      "blastRadius1psi", "blastRadius5psi", "blastRadius10psi", "overpressureRadii",
      "thermalRadius1deg", "thermalRadius2deg", "thermalRadius3deg", "thermalDuration",
      "fireball" }

SeismicFields ==
    { "seismicMagnitude", "seismicSignificant", "seismicRadius", "seismicZones",
      "groundMotion", "buildingDamage", "seismicDuration" }

TsunamiFields ==
    { "tsunamiGenerated", "tsunamiMaxHeight", "tsunamiOceanImpact", "tsunamiPropagation",
      "tsunamiCoastalEffects", "tsunamiVisualization", "tsunamiArrivalTimes" }

Has(obj, name) == name \in DOMAIN obj
InFlight(f) == f.pc \notin { "idle", "threw" }
Ran(f, stage) == \E i \in 1..Len(f.trace) : f.trace[i].stage = stage
Survived(f) == f.pc = "done" /\ f.results.survivesAtmosphere

BelowSurvivalDiameter(f) ==
    Lt(f.parameters.diameter,
       calculateSurvivalDiameter(f.parameters.velocity, f.asteroidDensity))

\* C1: a call whose diameter is below the survival diameter invokes no stage
\* but atmospheric entry, and returns survivesAtmosphere = false with
\* airburstAltitude and airburstEnergy and none of the crater, blast, thermal,
\* seismic or tsunami fields
AirburstReturnsEarly ==
    \A c \in Calls :
        LET f == frames[c]
        IN  (InFlight(f) /\ BelowSurvivalDiameter(f)) =>
                /\ f.pc \in { "atmosphere", "done" }
                /\ \A i \in 1..Len(f.trace) : f.trace[i].stage = "calculateAtmosphericEntry"
                /\ f.pc = "done" =>
                       /\ f.results.survivesAtmosphere = FALSE
                       /\ Has(f.results, "airburstAltitude")
                       /\ Has(f.results, "airburstEnergy")
                       /\ DOMAIN f.results
                            \cap (Phase1Fields \cup SeismicFields \cup TsunamiFields) = {}

AirburstReturned ==
    \E c \in Calls :
        /\ frames[c].pc = "done"
        /\ BelowSurvivalDiameter(frames[c])
        /\ Ran(frames[c], "calculateAtmosphericEntry")
        /\ Has(frames[c].results, "airburstEnergy")

\* C2: the seismic and tsunami stages are invoked if and only if the caller's
\* phase-2 flag is enabled; with the flag disabled before the call, a surviving
\* impactor's result has no seismic or tsunami field
Phase2FlagGatesStages ==
    \A c \in Calls :
        LET f == frames[c]
        IN  Survived(f) =>
                /\ Ran(f, "calculateSeismicEffects") <=> f.phase2AtCall
                /\ Ran(f, "calculateTsunami") <=> f.phase2AtCall
                /\ ~f.phase2AtCall =>
                       DOMAIN f.results \cap (SeismicFields \cup TsunamiFields) = {}

Malformed(parameters) ==
    /\ parameters.defined
    /\ \/ IsNaN(parameters.diameter)
       \/ IsNaN(parameters.velocity)
       \/ IsNaN(parameters.angle)
       \/ parameters.composition = "custom" /\ IsNaN(parameters.density)

\* C3: a call whose diameter, velocity, angle or custom density is missing or
\* not a number raises an error to the caller and returns no result
MalformedParametersRaise ==
    \A c \in Calls :
        (frames[c].pc # "idle" /\ Malformed(frames[c].parameters)) =>
            frames[c].pc = "threw"

LocationNotNumeric(f) ==
    /\ f.pc # "idle"
    /\ f.parameters.defined
    /\ \/ ~IsNumber(f.parameters.latitude)
       \/ ~IsNumber(f.parameters.longitude)

RecomputedEnergy(f) ==
    Mul(Mul(LgQ(1, 2), f.atmosphereResults.finalMass),
        Pow(Mul(f.atmosphereResults.finalVelocity, Lg(1000)), 2, 1))

\* C5: the stages of one call run in the order atmospheric entry, crater,
\* blast, thermal, seismic, tsunami, each after the previous one's output
\* exists; each stage after atmospheric entry receives the energy recomputed
\* from finalMass and finalVelocity, and seismic and tsunami receive the crater
\* diameter the crater stage of the same call produced
StagesRunInOrder ==
    \A c \in Calls :
        LET f == frames[c]
            n == Len(f.trace)
        IN  InFlight(f) =>
                /\ n <= Len(PipelineOrder)
                /\ \A i \in 1..n : f.trace[i].stage = PipelineOrder[i]
                /\ n >= 2 => Has(f.atmosphereResults, "finalMass")
                /\ n >= 3 => Has(f.craterResults, "diameter")
                /\ n >= 4 => Has(f.blastResults, "radius1psi")
                /\ n >= 5 => Has(f.thermalResults, "radius1deg")
                /\ n >= 6 => Has(f.seismicResults, "magnitude")
                /\ \A i \in 2..n : f.trace[i].energy = RecomputedEnergy(f)
                /\ \A i \in 5..n : f.trace[i].craterDiameter = f.craterResults.diameter

AllStagesRan ==
    \E c \in Calls :
        /\ Survived(frames[c])
        /\ Len(frames[c].trace) = Len(PipelineOrder)
        /\ frames[c].finalEnergy # frames[c].kineticEnergy
        /\ IsFinitePos(frames[c].craterResults.diameter)

Identical(r, e) ==
    /\ DOMAIN r = DOMAIN e
    /\ r.survivesAtmosphere = e.survivesAtmosphere
    /\ Has(r, "seismicSignificant") => r.seismicSignificant = e.seismicSignificant
    /\ Has(r, "tsunamiGenerated") => r.tsunamiGenerated = e.tsunamiGenerated
    /\ r = e

\* C7: two calls on the same calculator with identical parameters return
\* identical results, whatever calls and toggles lie between them
SameParametersSameResults ==
    \A c, d \in Calls :
        ( /\ frames[c].pc = "done"
          /\ frames[d].pc = "done"
          /\ frames[c].parameters = frames[d].parameters ) =>
            Identical(frames[c].results, frames[d].results)

SameParametersReturnedTwice ==
    \E c, d \in Calls :
        /\ c # d
        /\ Survived(frames[c])
        /\ Survived(frames[d])
        /\ frames[c].parameters = frames[d].parameters
        /\ frames[c].phase2AtCall # frames[d].phase2AtCall

\* what the call of each scenario returns when it runs alone on a new
\* calculator, as a sequence in the order of Scenarios
ResultsAloneWith(phase2Enabled) ==
    [ n \in 1..Len(Scenarios) |->
        RunAlone(NewCalculators, Enter(Scenarios[n], phase2Enabled)).results ] \o << >>

ResultsAlone == << ResultsAloneWith(FALSE), ResultsAloneWith(TRUE) >>

ScenarioOf(parameters) == CHOOSE i \in 1..Len(Scenarios) : Scenarios[i] = parameters

\* C8: calls in flight together do not interfere: no step writes the shared
\* calculators, and every call returns the result it returns when run alone
ConcurrentCallsDoNotInterfere ==
    /\ calculators = NewCalculators
    /\ \A c \in Calls :
           frames[c].pc = "done" =>
               Identical(frames[c].results,
                         ResultsAlone[IF frames[c].phase2AtCall THEN 2 ELSE 1]
                                     [ScenarioOf(frames[c].parameters)])

InterleavedCallReturned ==
    \E c, d \in Calls :
        /\ Survived(frames[c])
        /\ frames[c].interleaved
        /\ frames[c].results.tsunamiGenerated
        /\ frames[d].pc \in Suspended
        /\ frames[d].interleaved
        /\ frames[d].parameters # frames[c].parameters

\* C9 as stated: a call is suspended at one point only, the ocean lookup
SuspendsOnlyAtOceanLookup ==
    \A c \in Calls :
        /\ Len(frames[c].awaits) <= 1
        /\ \A i \in 1..Len(frames[c].awaits) : frames[c].awaits[i] = "determineOceanImpact"

AwaitsOfLandImpact == << "determineOceanImpact", "calculateTsunami" >>
AwaitsOfTsunami ==
    << "determineOceanImpact", "modelWavePropagation", "calculateCoastalEffects",
       "calculateTsunami" >>

\* C9: a call is suspended only once its tsunami stage has been called: at the
\* await of the ocean lookup, then, for a tsunami that is generated, at the
\* awaits of wave propagation and of the coastal effects, and last at
\* calculateImpact's await of calculateTsunami (the only await when the
\* location is invalid); no stage before the tsunami stage suspends
SuspendsOnlyInTsunamiStage ==
    \A c \in Calls :
        LET f == frames[c]
            n == Len(f.awaits)
        IN  InFlight(f) =>
                /\ \/ f.awaits = << "calculateTsunami" >>
                   \/ n <= 2 /\ f.awaits = SubSeq(AwaitsOfLandImpact, 1, n)
                   \/ n <= 4 /\ f.awaits = SubSeq(AwaitsOfTsunami, 1, n)
                /\ (n > 0 \/ f.pc \in Suspended) => Ran(f, "calculateTsunami")
                /\ (f.pc = "done" /\ Ran(f, "calculateTsunami")) =>
                       f.awaits = IF f.tsunamiResults.generated THEN AwaitsOfTsunami
                                  ELSE IF InvalidLocation(Location(f))
                                       THEN << "calculateTsunami" >>
                                       ELSE AwaitsOfLandImpact

TsunamiCallReturned ==
    \E c \in Calls :
        /\ Survived(frames[c])
        /\ frames[c].results.tsunamiGenerated
        /\ frames[c].awaits = AwaitsOfTsunami

\* C10: with a valid location the seismic result is significant exactly when
\* its magnitude is at least 3.0; below 3.0 the zones are empty, the effect
\* radius is 0, and nothing but the magnitude has been computed
SignificanceFloor ==
    \A c \in Calls :
        LET f == frames[c]
            s == f.seismicResults
        IN  ( /\ InFlight(f)
              /\ Ran(f, "calculateSeismicEffects")
              /\ IsNumber(f.parameters.latitude)
              /\ IsNumber(f.parameters.longitude) ) =>
                /\ s.significant <=> s.magnitude >= 3000
                /\ s.magnitude < 3000 =>
                       /\ s.zones = << >>
                       /\ s.effectRadius = Zero
                       /\ f.trace[5].computed = << "calculateMagnitude" >>
                       /\ DOMAIN s \cap { "groundMotion", "damageAssessment",
                                          "arrivalTimes" } = {}
                /\ s.magnitude >= 3000 =>
                       Len(f.trace[5].computed) = 5

InsignificantSeismicResult ==
    \E c \in Calls :
        /\ Ran(frames[c], "calculateSeismicEffects")
        /\ IsNumber(frames[c].parameters.latitude)
        /\ IsNumber(frames[c].parameters.longitude)
        /\ frames[c].seismicResults.magnitude > 0
        /\ frames[c].seismicResults.magnitude < 3000
        /\ ~frames[c].seismicResults.significant

\* C11: the zones of every seismic result are ordered by strictly descending
\* radius: each zone's radius is greater than that of the zone that follows it
ZonesDescendByRadius ==
    \A c \in Calls :
        Ran(frames[c], "calculateSeismicEffects") =>
            LET zones == frames[c].seismicResults.zones
            IN  \A i \in 1..(Len(zones) - 1) : zones[i].radius > zones[i + 1].radius

SeveralZonesReturned ==
    \E c \in Calls :
        /\ Ran(frames[c], "calculateSeismicEffects")
        /\ Len(frames[c].seismicResults.zones) >= 3

\* C12 as the specification words it: of any two zones of one event, the one
\* with the lower intensity has the strictly smaller radius
LowerIntensitySmallerRadius ==
    \A c \in Calls :
        Ran(frames[c], "calculateSeismicEffects") =>
            LET zones == frames[c].seismicResults.zones
            IN  \A i, j \in 1..Len(zones) :
                    zones[i].intensity < zones[j].intensity =>
                        zones[i].radius < zones[j].radius

\* C12: of any two zones of one event, the one with the lower intensity has
\* the strictly larger radius (intensity falls with distance from the epicenter)
LowerIntensityLargerRadius ==
    \A c \in Calls :
        Ran(frames[c], "calculateSeismicEffects") =>
            LET zones == frames[c].seismicResults.zones
            IN  \A i, j \in 1..Len(zones) :
                    zones[i].intensity < zones[j].intensity =>
                        zones[i].radius > zones[j].radius

WeakerZoneReachesFarther ==
    \E c \in Calls :
        /\ Ran(frames[c], "calculateSeismicEffects")
        /\ \E i, j \in 1..Len(frames[c].seismicResults.zones) :
              LET zones == frames[c].seismicResults.zones
              IN  /\ zones[i].intensity < zones[j].intensity
                  /\ zones[i].radius > zones[j].radius

\* a number that is 0 or more: not NaN, not undefined, not -Infinity
NonNegative(x) == ~IsNaN(x) /\ x >= Zero

\* C13: for every energy >= 0 and angle in [0, 90] the blast result has
\* 0 <= radius10psi <= radius5psi <= radius1psi, and in overpressureRadii the
\* radius does not grow as the pressure threshold grows
BlastRadiiOrdered ==
    Returned("calculateBlastWave") =>
        LET blast == direct.value
            radii == blast.overpressureRadii
        IN  /\ NonNegative(blast.radius10psi)
            /\ Le(blast.radius10psi, blast.radius5psi)
            /\ Le(blast.radius5psi, blast.radius1psi)
            /\ \A i, j \in 1..Len(radii) :
                   radii[i].pressure < radii[j].pressure =>
                       /\ NonNegative(radii[j].radius)
                       /\ Le(radii[j].radius, radii[i].radius)

ObliqueBlastReturned ==
    /\ Returned("calculateBlastWave")
    /\ direct.arguments.angle = 30
    /\ IsFinitePos(direct.arguments.energy)
    /\ IsFinitePos(direct.value.radius10psi)
    /\ direct.value.radius10psi < direct.value.radius1psi
    /\ direct.value.overpressureRadii[5].radius < direct.value.overpressureRadii[1].radius

\* C14: for every energy >= 0 the thermal result has
\* fireball.radius <= radius3deg <= radius2deg <= radius1deg
FireballWithinBurnRadii ==
    Returned("calculateThermalRadiation") =>
        LET thermal == direct.value
        IN  /\ Le(thermal.fireball.radius, thermal.radius3deg)
            /\ Le(thermal.radius3deg, thermal.radius2deg)
            /\ Le(thermal.radius2deg, thermal.radius1deg)

\* C15: for every positive energy the burn radii are strictly ordered, the
\* 1st-degree radius above the 2nd-degree radius above the 3rd-degree radius
BurnRadiiStrictlyOrdered ==
    \A c \in Calls :
        ( /\ Ran(frames[c], "calculateThermalRadiation")
          /\ IsFinitePos(frames[c].finalEnergy) ) =>
            LET thermal == frames[c].thermalResults
            IN  /\ Gt(thermal.radius1deg, thermal.radius2deg)
                /\ Gt(thermal.radius2deg, thermal.radius3deg)

\* of two results of calculateImpact on surviving bodies, the first of the
\* smaller diameter: crater diameter, 1 psi blast radius and 1st-degree burn
\* radius are each strictly larger in the second
GrowsWithDiameter(r1, r2) ==
    /\ Lt(r1.craterDiameter, r2.craterDiameter)
    /\ Lt(r1.blastRadius1psi, r2.blastRadius1psi)
    /\ Lt(r1.thermalRadius1deg, r2.thermalRadius1deg)

\* C16 as the specification words it: with velocity, angle (any value in
\* [0, 90]) and density fixed, for any two surviving diameters d1 < d2 the
\* results have craterDiameter, blastRadius1psi and thermalRadius1deg strictly
\* larger at d2
LargerDiameterLargerEffects ==
    Returned("calculateImpact") =>
        \A i, j \in 1..Len(Diameters) :
            ( /\ Diameters[i] < Diameters[j]
              /\ direct.value[i].survivesAtmosphere
              /\ direct.value[j].survivesAtmosphere ) =>
                GrowsWithDiameter(direct.value[i], direct.value[j])

\* C16: the same, for an angle above 0 and up to 90 (at angle 0 the crater
\* diameter and the blast radii are 0 for every diameter)
LargerDiameterLargerEffectsOffHorizontal ==
    ( Returned("calculateImpact") /\ direct.arguments.angle > 0 ) =>
        \A i, j \in 1..Len(Diameters) :
            ( /\ Diameters[i] < Diameters[j]
              /\ direct.value[i].survivesAtmosphere
              /\ direct.value[j].survivesAtmosphere ) =>
                GrowsWithDiameter(direct.value[i], direct.value[j])

SurvivorsOfTwoDiametersReturned ==
    /\ Returned("calculateImpact")
    /\ direct.arguments.angle = 30
    /\ ~direct.value[1].survivesAtmosphere
    /\ direct.value[2].survivesAtmosphere
    /\ direct.value[3].survivesAtmosphere
    /\ IsFinitePos(direct.value[2].craterDiameter)
    /\ direct.value[2].craterDiameter < direct.value[3].craterDiameter

\* C17: the tsunami stage returns its degenerate outcomes as values: a location
\* classified as land gives generated = false with waterDepth 0 and no coastal
\* effects, an ocean impact whose initial wave is below 0.1 m gives
\* generated = false with no coastal effects, and generated = true is returned
\* only for an ocean impact whose initial wave height is at least 0.1 m
TsunamiOutcomesAreValues ==
    \A c \in Calls :
        LET f == frames[c]
            tsunami == f.tsunamiResults
        IN  ( Ran(f, "calculateTsunami") /\ tsunami # << >> ) =>
                /\ f.pc # "threw"
                /\ ( ~InvalidLocation(Location(f))
                     /\ ~isOceanCoordinate(f.parameters.latitude, f.parameters.longitude) ) =>
                       /\ ~tsunami.generated
                       /\ tsunami.oceanImpact.waterDepth = Zero
                       /\ tsunami.coastalEffects = << >>
                /\ ( f.initialWave # << >> /\ Lt(f.initialWave.height, LgQ(1, 10)) ) =>
                       /\ ~tsunami.generated
                       /\ tsunami.coastalEffects = << >>
                /\ tsunami.generated =>
                       /\ tsunami.oceanImpact.inOcean
                       /\ Ge(tsunami.initialWave.height, LgQ(1, 10))

\* where a coastline point of getMajorCoastlines lies: its lat and lng
CoastlinePoint(coastline) ==
    [ latitude |-> coastline.coordinates.lat, longitude |-> coastline.coordinates.lng ]

\* the wave front that matches a coastline point of a generated tsunami: the
\* first front whose radius is within a tenth of the point's great-circle
\* distance from the epicentre, 0 if there is none
MatchingFront(f, coastline) ==
    findWaveAtDistance(f.tsunamiResults.propagation.waveFronts,
                       calculateDistance(calculators.tsunamiCalc, Location(f),
                                         CoastlinePoint(coastline)))

\* C18: every coastline point matched by a wave front at least 0.1 m high has
\* a coastal effect whose run-up is the front's height times the topography's
\* amplification (steep 1.5, moderate 2.0, flat 3.0) and whose inundation is
\* the run-up times the slope factor (20, 100, 1000), and the effects are
\* listed by ascending arrival time
CoastalEffectsForMatchedPoints ==
    \A c \in Calls :
        LET f == frames[c]
            tsunami == f.tsunamiResults
            coastlines == getMajorCoastlines(Location(f))
        IN  ( Ran(f, "calculateTsunami") /\ tsunami # << >> /\ tsunami.generated ) =>
                /\ \A i \in 1..Len(coastlines) :
                       LET found == MatchingFront(f, coastlines[i])
                           front == tsunami.propagation.waveFronts[found]
                           runUp == calculateWaveRunUp(calculators.tsunamiCalc, front,
                                                       coastlines[i])
                       IN  ( found # 0 /\ Ge(front.height, LgQ(1, 10)) ) =>
                               \E k \in 1..Len(tsunami.coastalEffects) :
                                   LET effect == tsunami.coastalEffects[k]
                                   IN  /\ effect.location = coastlines[i].name
                                       /\ effect.runUpHeight = runUp.maxHeight
                                       /\ effect.inundationDistance =
                                              calculateInundationDistance(
                                                  runUp, coastlines[i].topography).maxDistance
                /\ \A k \in 1..(Len(tsunami.coastalEffects) - 1) :
                       tsunami.coastalEffects[k].arrivalTime
                           <= tsunami.coastalEffects[k + 1].arrivalTime

\* C19: every seismic result with significant = true has at least one
\* intensity zone, and its effectRadius is the radius of the first zone, the
\* largest of them, a finite positive number, whatever the positive crater
\* diameter
SignificantResultHasZones ==
    ( Returned("calculateSeismicEffects") /\ direct.value.significant ) =>
        LET zones == direct.value.zones
        IN  /\ Len(zones) >= 1
            /\ direct.value.effectRadius = zones[1].radius
            /\ \A i \in 1..Len(zones) : zones[i].radius <= zones[1].radius
            /\ IsFinitePos(direct.value.effectRadius)

\* the layers visualizeEffects draws on an empty map from the results shown
LayersOfResultsShown ==
    LET shown == displayManager.results
    IN  visualizeEffects({ }, shown, [ latitude  |-> shown.impactLocation.latitude,
                                       longitude |-> shown.impactLocation.longitude ])

\* C20: once a run has completed, the effect layers on the map are exactly
\* those derived from that most recent run's results, so none after an
\* airburst, and no crater, blast, thermal or seismic layer of an earlier run
\* remains (the seismic layers of the run itself may have been cleared since
\* by switching Phase 2 off)
LayersAreOfMostRecentRun ==
    /\ displayManager.status = "Asteroid disintegrates in atmosphere" =>
           layerManager.layers = { }
    /\ displayManager.status = "Simulation complete" =>
           layerManager.layers \in { LayersOfResultsShown,
                                     clearSeismicLayers(LayersOfResultsShown) }

\* the rings of one effect on the map
RingsOf(name) == { l \in layerManager.layers : l.type = "ring" /\ l.id[1] = name }

\* C21: the blast rings, and the thermal rings, do not overlap: the layer of
\* each zone covers only the annulus between its own radius and the radius of
\* the next smaller zone, so no two rings of one effect cover a common point,
\* whatever the three radii, equal radii included
RingsDoNotOverlap ==
    \A name \in { "blast-wave-layer", "thermal-layer" } :
        \A a, b \in RingsOf(name) :
            /\ a.hole = a.innerRadius
            /\ a # b => ( a.radius <= b.hole \/ b.radius <= a.hole )

\* the radius the wave has at step k: speed * 3600 * k
RadiusAtStep(initialWave, k) ==
    Mul(initialWave.speed, IF k = 0 THEN Zero ELSE Lg(timeInterval * k))

\* C22: the wave fronts of modelWavePropagation are at most 24, front k
\* (from 0) has time 3600*k and radius speed*3600*k, every front has height at
\* least 0.01 m and radius at most 20,000 km, the heights do not increase along
\* the sequence, and the sequence stops at the first step that breaks the
\* height or the radius bound
WaveFrontsArePrefix ==
    \A c \in Calls :
        frames[c].propagationData # << >> =>
            LET initialWave == frames[c].propagationData.initialWave
                fronts == frames[c].propagationData.waveFronts
            IN  /\ Len(fronts) <= timeSteps
                /\ \A k \in 1..Len(fronts) :
                       /\ fronts[k].time = timeInterval * (k - 1)
                       /\ fronts[k].radius = RadiusAtStep(initialWave, k - 1)
                       /\ Ge(fronts[k].height, LgQ(1, 100))
                       /\ Le(fronts[k].radius, Lg(maxPropagationDistance * 1000))
                /\ \A k \in 1..(Len(fronts) - 1) :
                       Ge(fronts[k].height, fronts[k + 1].height)
                /\ Len(fronts) < timeSteps =>
                       LET radius == RadiusAtStep(initialWave, Len(fronts))
                       IN  \/ Gt(radius, Lg(maxPropagationDistance * 1000))
                           \/ Lt(calculateWaveHeightDecay(initialWave.height, radius,
                                                          initialWave.wavelength),
                                 LgQ(1, 100))

\* clamp(floor(1.5 M + 2), 3, 12) for a magnitude in thousandths
BaseOf(magnitude) ==
    LET floor == (3 * magnitude + 4000) \div 2000
    IN  IF floor < 3 THEN 3 ELSE IF floor > 12 THEN 12 ELSE floor

\* the levels base, base - 2, ... that are at least 3
LevelsFrom(base) == { i \in 3..base : (base - i) % 2 = 0 }

\* the attenuation radius of level i exceeds max(craterDiameter * 2^((base-i)/2), 500 m)
ExceedsFloor(i, base, magnitude, location, craterDiameter) ==
    Gt(calculateIntensityRadius(magnitude, i, location),
       Max(Mul(craterDiameter, ((base - i) \div 2) * Lg(2)), Lg(500)))

\* C23: for a magnitude M >= 3 with base = clamp(floor(1.5M+2), 3, 12), the
\* zones of calculateIntensityZones are those of the levels base, base-2, ...
\* down to 3 whose attenuation radius exceeds max(craterDiameter *
\* 2^((base-i)/2), 500 m), one zone per such level, so at most 5 zones, each
\* with a distinct integer intensity in 3..12
ZonesAreLevelsAboveFloor ==
    ( Returned("calculateSeismicEffects") /\ direct.value.significant
      /\ Ge(direct.value.magnitude, 3000) ) =>
        LET zones == direct.value.zones
            base  == BaseOf(direct.value.magnitude)
            emitted == { i \in LevelsFrom(base) :
                             ExceedsFloor(i, base, direct.value.magnitude,
                                          direct.arguments.location,
                                          direct.arguments.craterDiameter) }
        IN  /\ { zones[k].intensity : k \in 1..Len(zones) } = emitted
            /\ Len(zones) = Cardinality(emitted)
            /\ Len(zones) <= 5
            /\ \A k \in 1..Len(zones) : zones[k].intensity \in 3..12

\* a significant result in which one level gave a zone and another did not
SomeLevelsBelowFloor ==
    /\ Returned("calculateSeismicEffects") /\ direct.value.significant
    /\ Ge(direct.value.magnitude, 3000)
    /\ Len(direct.value.zones) >= 1
    /\ Len(direct.value.zones) < Cardinality(LevelsFrom(BaseOf(direct.value.magnitude)))

\* |a - b| on logarithms
Apart(a, b) == IF a = b THEN Zero ELSE IF a > b THEN Sub(a, b) ELSE Sub(b, a)

\* C24: findWaveAtDistance returns the nearest matching front: among the
\* fronts whose radius is within the 10% tolerance of the target distance the
\* one whose radius is closest to it, and it returns a front for every target
\* distance the wave has reached (at most the largest front radius)
NearestMatchingFront ==
    Returned("findWaveAtDistance") =>
        LET fronts == direct.arguments.waveFronts
            target == direct.arguments.targetDistance
            found  == direct.value
            matching == { i \in 1..Len(fronts) : WithinTolerance(fronts[i], target) }
        IN  /\ matching # { } =>
                /\ found \in matching
                /\ \A j \in matching :
                       Le(Apart(fronts[found].radius, target),
                          Apart(fronts[j].radius, target))
            /\ ( \E i \in 1..Len(fronts) : Le(target, fronts[i].radius) ) => found # 0

\* C25: a surviving atmospheric outcome (positive velocity and density) loses
\* at most 90% of the mass and keeps at least 50% of the velocity: 0.1*mass <=
\* finalMass <= mass, 0.5*velocity <= finalVelocity <= velocity, 0 <
\* finalDiameter <= diameter, and airburstAltitude and airburstEnergy are 0; a
\* non-surviving outcome has finalVelocity, finalMass and finalDiameter 0 and
\* airburstAltitude at least 10,000 m
EntryOutcomesBounded ==
    \A c \in Calls :
        LET f == frames[c]
            entry == f.atmosphereResults
        IN  entry # << >> =>
                IF entry.survivesAtmosphere
                THEN ( IsFinitePos(f.parameters.velocity) /\ IsFinitePos(f.asteroidDensity) ) =>
                         /\ Ge(entry.finalMass, Mul(LgQ(1, 10), f.mass))
                         /\ Le(entry.finalMass, f.mass)
                         /\ Ge(entry.finalVelocity, Mul(LgQ(1, 2), f.parameters.velocity))
                         /\ Le(entry.finalVelocity, f.parameters.velocity)
                         /\ IsFinitePos(entry.finalDiameter)
                         /\ Le(entry.finalDiameter, f.parameters.diameter)
                         /\ entry.airburstAltitude = Zero
                         /\ entry.airburstEnergy = Zero
                ELSE /\ entry.finalVelocity = Zero
                     /\ entry.finalMass = Zero
                     /\ entry.finalDiameter = Zero
                     /\ ~IsNaN(entry.airburstAltitude)
                     /\ entry.airburstAltitude >= 10000

\* ------------------------------------------------------------------------
\* The EventEmitter by itself: the calls a user of the class makes on it
\* ------------------------------------------------------------------------
MaxListeners == 2
MaxClosures == 2
MaxEmits == 2

Registered(e, eventName) ==
    IF eventName \in DOMAIN e.events THEN e.events[eventName] ELSE << >>

NumRegistered == Len(Registered(emitter, "resultsUpdated")) + Len(Registered(emitter, "stateReset"))

\* a call of on, once, off or removeAllListeners invokes no callback
Quiet(e) == [ e EXCEPT !.invoked = << >>, !.eventName = "" ]

EmitterCall(after) ==
    /\ emitter' = after
    /\ UNCHANGED <<simulator, visualization, localStorage, calculators, frames,
                   direct, layerManager, displayManager>>

On ==
    \E eventName \in EventNames, callback \in Callbacks :
        /\ NumRegistered < MaxListeners
        /\ EmitterCall(on(Quiet(emitter), eventName, Listener(callback, 0)))

Once ==
    \E eventName \in EventNames, callback \in Callbacks :
        /\ NumRegistered < MaxListeners
        /\ emitter.closures < MaxClosures
        /\ EmitterCall(once(Quiet(emitter), eventName, callback))

Off ==
    \E eventName \in EventNames, callback \in Callbacks :
        EmitterCall(off(Quiet(emitter), eventName, Listener(callback, 0)))

Emit ==
    \E eventName \in EventNames :
        /\ emitter.emitted < MaxEmits
        /\ EmitterCall(emit([ emitter EXCEPT !.invoked = << >>,
                                             !.eventName = eventName,
                                             !.emitted = @ + 1 ],
                            eventName, 0))

RemoveAllListeners ==
    \E eventName \in EventNames \cup { "" } :
        EmitterCall(removeAllListeners(Quiet(emitter), eventName))

EmitterNext ==
    \/ On
    \/ Once
    \/ Off
    \/ Emit
    \/ RemoveAllListeners

EmitterSpec == Init /\ [][EmitterNext]_vars

\* the listeners that the forEach of the latest top-level emit called, in order
CalledByEmit(e) ==
    Let(SelectSeq(e.invoked, LAMBDA call : call.depth = 0),
        LAMBDA calls : [ i \in 1..Len(calls) |-> calls[i].listener ])

\* C26: emit(e) invokes every listener that is registered for e when emit is
\* called exactly once, in registration order, for any mix of listeners added
\* with on and once, and also when a listener throws
EmitInvokesRegistered ==
    [][ \A eventName \in EventNames :
            ( emitter'.emitted = emitter.emitted + 1 /\ emitter'.eventName = eventName ) =>
                CalledByEmit(emitter') = Registered(emitter, eventName) ]_vars

\* C27: a listener registered with once is invoked at most once over any
\* sequence of emits of its event, emits from inside listeners and throwing
\* listeners included, and after its first invocation it is no longer
\* registered
OnceListenersRunOnce ==
    \A closure \in 1..emitter.closures :
        /\ emitter.times[closure] <= 1
        /\ emitter.times[closure] = 1 =>
               \A eventName \in EventNames, callback \in Callbacks :
                   IndexOf(Registered(emitter, eventName), Listener(callback, closure)) = 0

\* C28: in every initial wave returned by calculateInitialWave the waveType
\* label agrees with the regime used for period and speed: 'shallow-water'
\* exactly when the speed is sqrt(g*depth), 'deep-water' exactly when it is
\* sqrt(g*wavelength/(2*pi)), for the depths 2000, 3000 and 4000 m and every
\* crater diameter >= 0
WaveTypeAgreesWithRegime ==
    ( direct.method = "calculateInitialWave" /\ direct.returned ) =>
        LET wave == direct.value
            g == TsunamiCalculator.gravity
            shallow == Sqrt(Mul(g, direct.arguments.waterDepth))
            deep == Sqrt(Div(Mul(g, wave.wavelength), Mul(Lg(2), PI)))
        IN  /\ shallow # deep
            /\ wave.waveType = "shallow-water" <=> wave.speed = shallow
            /\ wave.waveType = "deep-water" <=> wave.speed = deep

\* C29: for every valid ImpactParameters (angle anywhere in [0, 90]) that
\* survives entry over ocean, the tsunami stage never divides by zero: the
\* crater diameter it receives is positive, so the displaced volume is
\* strictly positive and the initial wave height is a finite number
TsunamiStageNeverDividesByZero ==
    \A c \in Calls :
        LET f == frames[c]
        IN  ( /\ f.initialWave # << >>
              /\ ~Malformed(f.parameters)
              /\ f.parameters.angle \in 0..90 ) =>
                /\ IsFinitePos(f.craterResults.diameter)
                /\ IsFinitePos(f.initialWave.displacementVolume)
                /\ ~IsNaN(f.initialWave.height)
                /\ f.initialWave.height < PosInf

\* C30: whenever calculateTsunami returns generated = true, its maxHeight is a
\* finite number >= 0 equal to the largest height among the returned coastal
\* effects (their wave heights or their run-up heights), for any number of
\* coastal effects, none included
MaxHeightIsLargestCoastalHeight ==
    \A c \in Calls :
        LET tsunami == frames[c].tsunamiResults
            effects == tsunami.coastalEffects
        IN  ( tsunami # << >> /\ tsunami.generated ) =>
                /\ tsunami.maxHeight = Zero \/ IsFinitePos(tsunami.maxHeight)
                /\ effects # << >> =>
                       \/ tsunami.maxHeight =
                              MaxOf([ i \in 1..Len(effects) |-> effects[i].waveHeight ])
                       \/ tsunami.maxHeight =
                              MaxOf([ i \in 1..Len(effects) |-> effects[i].runUpHeight ])

=============================================================================
